---- MODULE Spec2Model ----
(***************************************************************************)
(* A model of the JT-DevStudio server actions (login, signup, OAuth,       *)
(* settings mutations, account deletion), of their validation schemas and  *)
(* of the backend state they act on.                                       *)
(*                                                                         *)
(* Strings that the code inspects character by character (form fields)     *)
(* are sequences of one-character strings; messages, paths and action      *)
(* names are TLA+ strings.                                                 *)
(***************************************************************************)
EXTENDS Integers, Sequences, FiniteSets, TLC

\* ------------------------------------------------------------------------
\* Characters and character classes
\* ------------------------------------------------------------------------

LowerSeq ==
  << "a", "b", "c", "d", "e", "f", "g", "h", "i", "j", "k", "l", "m",
     "n", "o", "p", "q", "r", "s", "t", "u", "v", "w", "x", "y", "z" >>

UpperSeq ==
  << "A", "B", "C", "D", "E", "F", "G", "H", "I", "J", "K", "L", "M",
     "N", "O", "P", "Q", "R", "S", "T", "U", "V", "W", "X", "Y", "Z" >>

Range(s) == { s[i] : i \in 1..Len(s) }

LowerChars == Range(LowerSeq)
UpperChars == Range(UpperSeq)
LetterChars == LowerChars \cup UpperChars
DigitChars == { "0", "1", "2", "3", "4", "5", "6", "7", "8", "9" }
\* the special characters of passwordRegex and validatePasswordStrength
SpecialChars == { "@", "$", "!", "%", "*", "?", "&" }
\* \s of fullNameRegex
SpaceChars == { " ", "\t", "\n" }

\* String.prototype.toLowerCase, one character
ToLowerChar(c) ==
  IF c \in UpperChars
    THEN LowerSeq[CHOOSE i \in 1..Len(UpperSeq) : UpperSeq[i] = c]
    ELSE c

\* String.prototype.toLowerCase
ToLowerCase(s) == [ i \in 1..Len(s) |-> ToLowerChar(s[i]) ]

AllIn(s, class) == \A i \in 1..Len(s) : s[i] \in class
SomeIn(s, class) == \E i \in 1..Len(s) : s[i] \in class

\* ------------------------------------------------------------------------
\* Regular expressions of auth-schemas.ts
\* ------------------------------------------------------------------------

\* /^(?=.*[a-z])(?=.*[A-Z])(?=.*\d)(?=.*[@$!%*?&])[A-Za-z\d@$!%*?&]{8,}$/
passwordRegex(s) ==
  /\ SomeIn(s, LowerChars)
  /\ SomeIn(s, UpperChars)
  /\ SomeIn(s, DigitChars)
  /\ SomeIn(s, SpecialChars)
  /\ AllIn(s, LetterChars \cup DigitChars \cup SpecialChars)
  /\ Len(s) >= 8

\* the pattern without its leading letter: /^[a-zA-Z0-9_]{3,20}$/
usernameRegex_anyFirst(s) ==
  /\ Len(s) >= 3
  /\ Len(s) <= 20
  /\ \A i \in 1..Len(s) : s[i] \in LetterChars \cup DigitChars \cup { "_" }

\* /^[a-zA-Z][a-zA-Z0-9_]{2,19}$/
usernameRegex(s) ==
  /\ Len(s) >= 3
  /\ Len(s) <= 20
  /\ s[1] \in LetterChars
  /\ \A i \in 2..Len(s) : s[i] \in LetterChars \cup DigitChars \cup { "_" }

\* the pattern with digits allowed: /^[a-zA-Z0-9\s'-]+$/
fullNameRegex_withDigits(s) ==
  /\ Len(s) >= 1
  /\ AllIn(s, LetterChars \cup DigitChars \cup SpaceChars \cup { "'", "-" })

\* /^[a-zA-Z\s'-]+$/
fullNameRegex(s) ==
  /\ Len(s) >= 1
  /\ AllIn(s, LetterChars \cup SpaceChars \cup { "'", "-" })

\* z.string().email(): the pattern zod tests,
\* /^(?!\.)(?!.*\.\.)([A-Z0-9_'+\-\.]*)[A-Z0-9_+-]@([A-Z0-9][A-Z0-9\-]*\.)+[A-Z]{2,}$/i
EmailLocalChars == LetterChars \cup DigitChars \cup { "_", "'", "+", "-", "." }
EmailLocalLast == LetterChars \cup DigitChars \cup { "_", "+", "-" }
EmailLabelChars == LetterChars \cup DigitChars \cup { "-" }

IsEmailDomain(d) ==
  \* d = (label ".")+ tld : the last dot splits off a tld of 2+ letters, and
  \* every dot-separated label before it starts with a letter or digit
  /\ Len(d) >= 1
  /\ \E k \in 1..Len(d) :
       /\ d[k] = "."
       /\ \A i \in (k + 1)..Len(d) : d[i] \in LetterChars
       /\ Len(d) - k >= 2
       /\ \A i \in 1..(k - 1) : d[i] \in EmailLabelChars \cup { "." }
       /\ d[1] \in LetterChars \cup DigitChars
       /\ \A i \in 1..(k - 1) :
            d[i] = "." => d[i + 1] \in LetterChars \cup DigitChars

IsEmail(s) ==
  /\ Len(s) >= 1
  /\ s[1] # "."
  /\ \A i \in 1..(Len(s) - 1) : ~(s[i] = "." /\ s[i + 1] = ".")
  /\ \E k \in 2..Len(s) :
       /\ s[k] = "@"
       /\ \A i \in 1..(k - 1) : s[i] \in EmailLocalChars
       /\ s[k - 1] \in EmailLocalLast
       /\ IsEmailDomain(SubSeq(s, k + 1, Len(s)))

\* ------------------------------------------------------------------------
\* Form values
\* ------------------------------------------------------------------------

\* FormData.get of a field the form does not carry
Null == << "null" >>

\* the literal 'DELETE' and 'true' the actions compare form fields with
DELETE == << "D", "E", "L", "E", "T", "E" >>
TrueText == << "t", "r", "u", "e" >>
FalseText == << "f", "a", "l", "s", "e" >>

\* the issues of one check: the message when the check fails
Check(ok, message) == IF ok THEN << >> ELSE << message >>

\* ------------------------------------------------------------------------
\* Schemas of auth-schemas.ts: the issue list of safeParse, in zod's order
\* (object keys in declared order, the checks of a string in declared order,
\* refinements of the object after its fields), and the parsed data
\* ------------------------------------------------------------------------

fullNameIssues(v) ==
  Check(Len(v) >= 2, "Full name must be at least 2 characters")
  \o Check(Len(v) <= 100, "Full name must be less than 100 characters")
  \o Check(fullNameRegex(v),
           "Full name can only contain letters, spaces, hyphens, and apostrophes")

usernameIssues(v) ==
  Check(Len(v) >= 3, "Username must be at least 3 characters")
  \o Check(Len(v) <= 20, "Username must be less than 20 characters")
  \o Check(usernameRegex(v),
           "Username must start with a letter and contain only letters, numbers, and underscores")

signupEmailIssues(v) ==
  Check(IsEmail(v), "Please enter a valid email address")
  \o Check(Len(v) <= 254, "Email must be less than 254 characters")

passwordIssues(v) ==
  Check(Len(v) >= 8, "Password must be at least 8 characters")
  \o Check(passwordRegex(v),
           "Password must include uppercase, lowercase, number, and special character (@$!%*?&)")

signupSchemaIssues(f) ==
  fullNameIssues(f.fullName) \o usernameIssues(f.username)
  \o signupEmailIssues(f.email) \o passwordIssues(f.password)

signupSchemaData(f) ==
  [ fullName |-> f.fullName, username |-> f.username,
    email |-> ToLowerCase(f.email), password |-> f.password ]

loginSchemaIssues(f) ==
  Check(IsEmail(f.email), "Please enter a valid email address")
  \o Check(Len(f.password) >= 1, "Password is required")

loginSchemaData(f) ==
  [ email |-> ToLowerCase(f.email), password |-> f.password ]

\* a test for special characters that takes any character that is neither a
\* letter nor a digit
hasSpecial_anySymbol(password) ==
  \E i \in 1..Len(password) : password[i] \notin LetterChars \cup DigitChars

\* /[@$!%*?&]/.test(password)
hasSpecial(password) == SomeIn(password, SpecialChars)

\* validatePasswordStrength(password)
validatePasswordStrength(password) ==
  LET requirements ==
        [ minLength |-> Len(password) >= 8,
          hasUppercase |-> SomeIn(password, UpperChars),
          hasLowercase |-> SomeIn(password, LowerChars),
          hasNumber |-> SomeIn(password, DigitChars),
          hasSpecial |-> hasSpecial(password) ]
      \* Object.values(requirements).filter(Boolean).length
      metCount == Cardinality({ k \in DOMAIN requirements : requirements[k] })
  IN  [ requirements |-> requirements, score |-> metCount, isValid |-> metCount = 5 ]

\* the schema without its second refinement
changePasswordSchemaIssues_sameAllowed(f) ==
  Check(Len(f.currentPassword) >= 1, "Current password is required")
  \o passwordIssues(f.newPassword)
  \o Check(Len(f.confirmNewPassword) >= 1, "Please confirm your new password")
  \o Check(f.newPassword = f.confirmNewPassword, "Passwords do not match")

changePasswordSchemaIssues(f) ==
  Check(Len(f.currentPassword) >= 1, "Current password is required")
  \o passwordIssues(f.newPassword)
  \o Check(Len(f.confirmNewPassword) >= 1, "Please confirm your new password")
  \o Check(f.newPassword = f.confirmNewPassword, "Passwords do not match")
  \o Check(f.currentPassword # f.newPassword,
           "New password must be different from current password")

changeUsernameSchemaIssues(f) == usernameIssues(f.username)

changeUsernameSchemaData(f) == [ username |-> ToLowerCase(f.username) ]

\* displayName: the string checks, or the literal '' (.or(z.literal('')))
displayNameIssues(v) ==
  IF v = << >> THEN << >>
  ELSE Check(Len(v) >= 2, "Display name must be at least 2 characters")
       \o Check(Len(v) <= 100, "Display name must be less than 100 characters")
       \o Check(fullNameRegex(v),
                "Display name can only contain letters, spaces, hyphens, and apostrophes")

bioIssues(v) == Check(Len(v) <= 500, "Bio must be less than 500 characters")

updateProfileSchemaIssues(f) == displayNameIssues(f.displayName) \o bioIssues(f.bio)

\* both fields are booleans when the action builds the object: no issue
notificationPreferencesSchemaIssues(f) == << >>

\* ------------------------------------------------------------------------
\* The world of the model: users, browsers, requests
\* ------------------------------------------------------------------------

UserIds == { "u1", "u2", "u3", "u4" }
NoUser == "none"

\* browsers: c0 holds no session cookie, c1 and c2 may hold one
Clients == { "c0", "c1", "c2" }

\* the requests of one behaviour; they may overlap in time
Slots == { "r1", "r2" }

\* passwords
PwA == << "A", "a", "1", "!", "a", "a", "a", "a" >>
PwB == << "B", "b", "2", "?", "b", "b", "b", "b" >>
PwWeak == << "a", "b", "c" >>

\* e-mail addresses
MailA == << "a", "@", "x", ".", "i", "o" >>
MailAUpper == << "A", "@", "x", ".", "i", "o" >>
MailB == << "b", "@", "x", ".", "i", "o" >>
MailC == << "c", "@", "x", ".", "i", "o" >>
MailBad == << "a", "@", "x" >>

\* user names
NameBob == << "b", "o", "b" >>
NameBobUpper == << "B", "o", "b" >>
NameAmy == << "a", "m", "y" >>
NameCat == << "c", "a", "t" >>
NameCatUpper == << "C", "a", "t" >>
NameShort == << "a", "b" >>
NameDigit == << "1", "a", "b" >>

\* the request headers each browser sends
Headers(c) ==
  CASE c = "c0" -> [ xForwardedFor |-> Null, xRealIp |-> Null ]
    [] c = "c1" -> [ xForwardedFor |-> << "7", ",", " ", "9" >>, xRealIp |-> << "9" >> ]
    [] c = "c2" -> [ xForwardedFor |-> Null, xRealIp |-> << "7" >> ]

\* s.split(',')[0]
FirstEntry(s) ==
  IF \E i \in 1..Len(s) : s[i] = ","
    THEN SubSeq(s, 1, (CHOOSE i \in 1..Len(s) :
                         s[i] = "," /\ \A j \in 1..(i - 1) : s[j] # ",") - 1)
    ELSE s

\* String.prototype.trim
RECURSIVE Trim(_)
Trim(s) ==
  IF s = << >> THEN s
  ELSE IF s[1] \in SpaceChars THEN Trim(Tail(s))
  ELSE IF s[Len(s)] \in SpaceChars THEN Trim(SubSeq(s, 1, Len(s) - 1))
  ELSE s

Anonymous == << "a", "n", "o", "n", "y", "m", "o", "u", "s" >>

\* a header value that is absent or the empty string is falsy
Falsy(v) == v = Null \/ v = << >>

\* x-real-ip read before x-forwarded-for
getClientIp_realIpFirst(h) ==
  IF ~Falsy(h.xRealIp) THEN h.xRealIp
  ELSE IF ~Falsy(h.xForwardedFor) THEN Trim(FirstEntry(h.xForwardedFor))
  ELSE Anonymous

getClientIp(h) ==
  IF ~Falsy(h.xForwardedFor) THEN Trim(FirstEntry(h.xForwardedFor))
  ELSE IF ~Falsy(h.xRealIp) THEN h.xRealIp
  ELSE Anonymous

\* the key prefixes the actions pass to checkRateLimit
RatePrefixes ==
  { "login", "signup", "change-password", "change-username",
    "delete-account", "delete-request" }

RateKeys == RatePrefixes \X { getClientIp(Headers(c)) : c \in Clients }

\* requests the limiter admits per key in one window
RateLimit == 2

\* ------------------------------------------------------------------------
\* State
\* ------------------------------------------------------------------------

VARIABLES
  users,      \* the provider's auth users: status, email, password, identities
  profiles,   \* the profiles table, one row per user id
  session,    \* the user each browser's session cookie stands for
  rateCount,  \* the limiter's counter of each key
  siteUrl,    \* process.env.SITE_URL
  pc,         \* where each request stands
  req,        \* each request's action, browser and form
  authUser,   \* the user requireAuth gave each request
  calls,      \* the steps each request has run, in order
  out,        \* how each request ended: returned value or redirect
  oauth,      \* the options each request passed to auth.signInWithOAuth
  overlapped, \* whether the second request was called while the first was running
  parse,      \* a form as it is typed, and what its validator says of it
  thread,     \* a rendered comment thread: reply forms, clicks and renders
  page        \* a login or settings page in a browser

vars ==
  << users, profiles, session, rateCount, siteUrl, pc, req, authUser, calls, out, oauth,
     overlapped, parse, thread, page >>

backend == << users, profiles, session >>

\* the state of the browser's pages, which no server action touches
browser == << parse, thread, page >>

Actions ==
  { "login", "signup", "signout", "signInWithGithub", "signInWithGoogle",
    "changePassword", "changeUsername", "updateProfile",
    "updateNotificationPreferences", "deleteAccount", "requestAccountDeletion" }

\* the forms a browser submits to each action
Forms(a) ==
  CASE a = "login" ->
         { [ email |-> MailAUpper, password |-> PwA ],
           [ email |-> MailA, password |-> PwB ],
           [ email |-> MailBad, password |-> << >> ],
           [ email |-> MailB, password |-> << >> ] }
    [] a = "signup" ->
         { [ fullName |-> << "A", "l" >>, username |-> NameCatUpper,
             email |-> MailC, password |-> PwA ],
           [ fullName |-> << "A", "l" >>, username |-> NameBobUpper,
             email |-> MailC, password |-> PwA ],
           [ fullName |-> << "1" >>, username |-> NameShort,
             email |-> MailBad, password |-> PwWeak ],
           [ fullName |-> << "A", "l" >>, username |-> NameDigit,
             email |-> MailC, password |-> PwWeak ],
           [ fullName |-> << "O", "'", "N" >>, username |-> NameCat,
             email |-> MailAUpper, password |-> PwB ] }
    [] a = "changePassword" ->
         { [ currentPassword |-> PwA, newPassword |-> PwB, confirmNewPassword |-> PwB ],
           [ currentPassword |-> PwB, newPassword |-> PwA, confirmNewPassword |-> PwA ],
           [ currentPassword |-> PwA, newPassword |-> PwA, confirmNewPassword |-> PwA ],
           [ currentPassword |-> PwA, newPassword |-> PwB, confirmNewPassword |-> PwA ],
           [ currentPassword |-> << >>, newPassword |-> PwWeak, confirmNewPassword |-> << >> ] }
    [] a = "changeUsername" ->
         { [ username |-> NameCatUpper ], [ username |-> NameAmy ],
           [ username |-> NameShort ], [ username |-> NameDigit ] }
    [] a = "updateProfile" ->
         { [ displayName |-> << "A", "l" >>, bio |-> << "h", "i" >> ],
           [ displayName |-> << >>, bio |-> << >> ],
           [ displayName |-> << "1" >>, bio |-> << >> ] }
    [] a = "updateNotificationPreferences" ->
         { [ securityAlerts |-> TrueText, emailUpdates |-> FalseText ],
           [ securityAlerts |-> Null, emailUpdates |-> TrueText ] }
    [] a = "deleteAccount" ->
         { [ password |-> PwA, confirmText |-> DELETE ],
           [ password |-> PwB, confirmText |-> DELETE ],
           [ password |-> Null, confirmText |-> DELETE ],
           [ password |-> PwA, confirmText |-> << "d", "e", "l", "e", "t", "e" >> ],
           [ password |-> << >>, confirmText |-> Null ] }
    [] OTHER -> { [ none |-> TRUE ] }

\* the first step of each action
FirstStep(a) ==
  CASE a \in { "login", "signup", "changePassword", "changeUsername",
               "deleteAccount", "requestAccountDeletion" } -> "checkRateLimit"
    [] a \in { "updateProfile", "updateNotificationPreferences" } -> "requireAuth"
    [] a = "signout" -> "signOut"
    [] a \in { "signInWithGithub", "signInWithGoogle" } -> "siteUrl"

NoRequest == [ action |-> "none" ]
Pending == [ kind |-> "pending" ]
NoOAuth == [ provider |-> "none" ]

\* the value of a function that ends without a return statement
Undefined == [ undefined |-> TRUE ]

NoProfile ==
  [ present |-> FALSE, username |-> Null, display_name |-> Null, bio |-> Null,
    security_alerts |-> TRUE, email_updates |-> TRUE ]

NoAccount ==
  [ status |-> "free", email |-> Null, password |-> Null, identities |-> { } ]

SiteUrls ==
  { [ defined |-> FALSE, value |-> "" ],
    [ defined |-> TRUE, value |-> "" ],
    [ defined |-> TRUE, value |-> "https://jt.dev" ] }

\* no form is being typed
NoParse == [ schema |-> "none" ]

\* no comment thread is rendered, no page is open
NoThread == [ mounted |-> FALSE ]
NoPage == [ route |-> "none" ]

ServerInit ==
  \* the OAuth user's identity list holds the OAuth identity or is empty
  /\ \E oauthIdentities \in { { "github" }, { } } :
       users =
         [ u \in UserIds |->
             CASE u = "u1" -> [ status |-> "active", email |-> MailA, password |-> PwA,
                                identities |-> { "email" } ]
               [] u = "u2" -> [ status |-> "active", email |-> MailB, password |-> Null,
                                identities |-> oauthIdentities ]
               [] OTHER -> NoAccount ]
  /\ profiles =
       [ u \in UserIds |->
           CASE u = "u1" -> [ NoProfile EXCEPT !.present = TRUE, !.username = NameBob ]
             [] u = "u2" -> [ NoProfile EXCEPT !.present = TRUE, !.username = NameAmy ]
             [] OTHER -> NoProfile ]
  /\ session = [ c \in Clients |->
                   CASE c = "c1" -> "u1" [] c = "c2" -> "u2" [] OTHER -> NoUser ]
  \* the requests each key has already been granted in the current window:
  \* none, all but one, or all
  /\ \E n \in { 0, RateLimit - 1, RateLimit } : rateCount = [ k \in RateKeys |-> n ]
  /\ siteUrl \in SiteUrls
  /\ pc = [ r \in Slots |-> "idle" ]
  /\ req = [ r \in Slots |-> NoRequest ]
  /\ authUser = [ r \in Slots |-> NoUser ]
  /\ calls = [ r \in Slots |-> << >> ]
  /\ out = [ r \in Slots |-> Pending ]
  /\ oauth = [ r \in Slots |-> NoOAuth ]
  /\ overlapped = FALSE

Init == ServerInit /\ parse = NoParse /\ thread = NoThread /\ page = NoPage

\* ------------------------------------------------------------------------
\* Helpers of the actions
\* ------------------------------------------------------------------------

\* a failure that carries no error
Fail_noError(message) == [ success |-> FALSE ]

\* { success: false, error: message }
Fail(message) == [ success |-> FALSE, error |-> message ]

\* the request goes to step p after running the steps `done`
Goto(r, p, done) ==
  /\ pc' = [ pc EXCEPT ![r] = p ]
  /\ calls' = [ calls EXCEPT ![r] = @ \o done ]
  /\ out' = out
  /\ UNCHANGED browser

\* the request returns `value` to its caller after running the steps `done`
Return(r, value, done) ==
  /\ pc' = [ pc EXCEPT ![r] = "done" ]
  /\ calls' = [ calls EXCEPT ![r] = @ \o done ]
  /\ out' = [ out EXCEPT ![r] = [ kind |-> "return", value |-> value ] ]
  /\ UNCHANGED browser

\* the request ends in redirect(path), which never returns to the caller
Redirect(r, path, done) ==
  /\ pc' = [ pc EXCEPT ![r] = "done" ]
  /\ calls' = [ calls EXCEPT ![r] = @ \o done ]
  /\ out' = [ out EXCEPT ![r] = [ kind |-> "redirect", to |-> path ] ]
  /\ UNCHANGED browser

At(r, action, step) == req[r].action = action /\ pc[r] = step

\* checkRateLimit(authRateLimiter, key): the limiter admits RateLimit
\* requests of a key, counts the admitted ones and rejects the others
RateKey(r, prefix) == << prefix, getClientIp(Headers(req[r].client)) >>
RateAdmits(key) == rateCount[key] < RateLimit
RateCounted(key) ==
  IF RateAdmits(key) THEN [ rateCount EXCEPT ![key] = @ + 1 ] ELSE rateCount

\* a browser calls a server action
Invoke(r) ==
  /\ pc[r] = "idle"
  /\ r = "r2" => pc["r1"] # "idle"
  /\ \E a \in Actions, c \in Clients :
       \E f \in Forms(a) :
         /\ req' = [ req EXCEPT ![r] = [ action |-> a, client |-> c, form |-> f ] ]
         /\ pc' = [ pc EXCEPT ![r] = FirstStep(a) ]
  /\ overlapped' = (overlapped \/ \E q \in Slots \ { r } : pc[q] \notin { "idle", "done" })
  /\ UNCHANGED << users, profiles, session, rateCount, siteUrl, authUser, calls, out, oauth >>
  /\ UNCHANGED browser

\* the check's answer ignored
rateLimited_never(admitted) == FALSE

\* if (!rateLimitResult.success)
rateLimited(admitted) == ~admitted

\* the parse result ignored
validationFailed_never(issues) == FALSE

\* if (!validation.success)
validationFailed(issues) == issues # << >>

\* the last issue instead of the first
lastIssueMessage(issues) == issues[Len(issues)]

\* validation.error.issues[0].message
firstIssueMessage(issues) == issues[1]

\* the entry a step leaves in the request's record of steps
RateEntry(admitted) == IF admitted THEN "checkRateLimit:ok" ELSE "checkRateLimit:exceeded"
ParseEntry(issues) == IF issues = << >> THEN "validate:ok" ELSE "validate:issues"

\* ------------------------------------------------------------------------
\* The backend provider
\* ------------------------------------------------------------------------

\* auth.signInWithPassword: the active users with an email identity whose
\* credentials these are
SignInMatch(email, password) ==
  { u \in UserIds : /\ users[u].status = "active"
                    /\ "email" \in users[u].identities
                    /\ users[u].email = email
                    /\ users[u].password = password }

\* auth.getUser: the user of the browser's session, if the user still exists
GetUser(c) ==
  IF session[c] # NoUser /\ users[session[c]].status = "active"
    THEN session[c] ELSE NoUser

\* from('profiles').select('username').eq('username', name).single()
SelectByUsername(name) ==
  { u \in UserIds : profiles[u].present /\ profiles[u].username = name }

\* the unique constraint on profiles.username
UsernameFree(name, self) ==
  \A u \in UserIds \ { self } : ~(profiles[u].present /\ profiles[u].username = name)

\* the trigger handle_new_user: the profile row of a new auth user
handle_new_user(meta) ==
  [ NoProfile EXCEPT !.present = TRUE, !.username = meta.user_name,
                     !.display_name = meta.full_name ]

\* ------------------------------------------------------------------------
\* login(formData)
\* ------------------------------------------------------------------------

login_checkRateLimit(r) ==
  /\ At(r, "login", "checkRateLimit")
  /\ LET key == RateKey(r, "login")
         admitted == RateAdmits(key)
         issues == loginSchemaIssues(req[r].form)
     IN  /\ rateCount' = RateCounted(key)
         /\ IF rateLimited(admitted)
              THEN Return(r, Fail("Too many login attempts. Please try again later."),
                          << RateEntry(admitted) >>)
              ELSE IF validationFailed(issues)
                THEN Return(r, Fail(firstIssueMessage(issues)),
                            << RateEntry(admitted), ParseEntry(issues) >>)
                ELSE Goto(r, "signInWithPassword",
                          << RateEntry(admitted), ParseEntry(issues) >>)
  /\ UNCHANGED << users, profiles, session, siteUrl, req, authUser, oauth, overlapped >>

login_signInWithPassword(r) ==
  /\ At(r, "login", "signInWithPassword")
  /\ LET data == loginSchemaData(req[r].form)
         match == SignInMatch(data.email, data.password)
     IN  IF match = { }
           THEN /\ Return(r, Fail("Invalid login credentials"),
                          << "signInWithPassword:error" >>)
                /\ session' = session
           ELSE /\ Return(r, [ success |-> TRUE, redirectTo |-> "/" ],
                          << "signInWithPassword:ok" >>)
                /\ session' = [ session EXCEPT ![req[r].client] = CHOOSE u \in match : TRUE ]
  /\ UNCHANGED << users, profiles, rateCount, siteUrl, req, authUser, oauth, overlapped >>

\* ------------------------------------------------------------------------
\* signup(formData)
\* ------------------------------------------------------------------------

\* the lookup with the username as typed
signupLookupName_asTyped(username) == username

\* .eq('username', username.toLowerCase())
signupLookupName(username) == ToLowerCase(username)

\* the metadata with the username as typed
signupMetadata_asTyped(data) ==
  [ full_name |-> data.fullName, user_name |-> data.username ]

\* options.data of auth.signUp
signupMetadata(data) ==
  [ full_name |-> data.fullName, user_name |-> ToLowerCase(data.username) ]

signup_checkRateLimit(r) ==
  /\ At(r, "signup", "checkRateLimit")
  /\ LET key == RateKey(r, "signup")
         admitted == RateAdmits(key)
         issues == signupSchemaIssues(req[r].form)
     IN  /\ rateCount' = RateCounted(key)
         /\ IF rateLimited(admitted)
              THEN Return(r, Fail("Too many signup attempts. Please try again later."),
                          << RateEntry(admitted) >>)
              ELSE IF validationFailed(issues)
                THEN Return(r, Fail(firstIssueMessage(issues)),
                            << RateEntry(admitted), ParseEntry(issues) >>)
                ELSE Goto(r, "select", << RateEntry(admitted), ParseEntry(issues) >>)
  /\ UNCHANGED << users, profiles, session, siteUrl, req, authUser, oauth, overlapped >>

signup_select(r) ==
  /\ At(r, "signup", "select")
  /\ LET data == signupSchemaData(req[r].form)
         existingProfile == SelectByUsername(signupLookupName(data.username))
     IN  IF existingProfile # { }
           THEN Return(r, Fail("Username is already taken"), << "select:found" >>)
           ELSE Goto(r, "signUp", << "select:none" >>)
  /\ UNCHANGED << users, profiles, session, rateCount, siteUrl, req, authUser, oauth, overlapped >>

signup_signUp(r) ==
  /\ At(r, "signup", "signUp")
  /\ LET data == signupSchemaData(req[r].form)
         meta == signupMetadata(data)
         free == { u \in UserIds : users[u].status = "free" }
         registered == \E u \in UserIds :
                         users[u].status = "active" /\ users[u].email = data.email
     IN  IF registered \/ free = { }
           THEN /\ Return(r, Fail("User already registered"), << "signUp:error" >>)
                /\ UNCHANGED << users, profiles >>
           ELSE IF ~UsernameFree(meta.user_name, NoUser)
             THEN /\ Return(r, Fail("Database error saving new user"), << "signUp:error" >>)
                  /\ UNCHANGED << users, profiles >>
             ELSE LET id == CHOOSE u \in free : TRUE
                  IN  /\ users' = [ users EXCEPT ![id] =
                                      [ status |-> "active", email |-> data.email,
                                        password |-> data.password,
                                        identities |-> { "email" } ] ]
                      /\ profiles' = [ profiles EXCEPT ![id] = handle_new_user(meta) ]
                      /\ Return(r, [ success |-> TRUE, redirectTo |-> "/" ],
                                << "signUp:ok" >>)
  /\ UNCHANGED << session, rateCount, siteUrl, req, authUser, oauth, overlapped >>

\* ------------------------------------------------------------------------
\* Settings actions: requireAuth and the try/catch around each body
\* ------------------------------------------------------------------------

\* requireAuth: throw new Error(...) when getUser gives an error or no user
NotLoggedIn == "You must be logged in to perform this action"

\* the catch block taking the thrown value for no Error
catchResult_generic(message) == Fail("An error occurred")

\* catch (error) { return { success: false, error: error.message } }
catchResult(message) == Fail(message)

AuthEntry(user) == IF user = NoUser THEN "getUser:none" ELSE "getUser:ok"

\* rate-limited settings actions share the first step
settings_checkRateLimit(r, action, prefix) ==
  /\ At(r, action, "checkRateLimit")
  /\ LET key == RateKey(r, prefix)
         admitted == RateAdmits(key)
     IN  /\ rateCount' = RateCounted(key)
         /\ IF rateLimited(admitted)
              THEN Return(r, Fail("Too many attempts. Please try again later."),
                          << RateEntry(admitted) >>)
              ELSE Goto(r, "requireAuth", << RateEntry(admitted) >>)
  /\ UNCHANGED << users, profiles, session, siteUrl, req, authUser, oauth, overlapped >>

\* requireAuth, then safeParse of the form: to step `next` when both pass
settings_requireAuth(r, action, issues, next) ==
  /\ At(r, action, "requireAuth")
  /\ LET user == GetUser(req[r].client)
     IN  /\ authUser' = [ authUser EXCEPT ![r] = user ]
         /\ IF user = NoUser
              THEN Return(r, catchResult(NotLoggedIn), << AuthEntry(user) >>)
              ELSE IF validationFailed(issues)
                THEN Return(r, Fail(firstIssueMessage(issues)),
                            << AuthEntry(user), ParseEntry(issues) >>)
                ELSE Goto(r, next, << AuthEntry(user), ParseEntry(issues) >>)
  /\ UNCHANGED << users, profiles, session, rateCount, siteUrl, req, oauth, overlapped >>

\* ------------------------------------------------------------------------
\* changePassword(formData)
\* ------------------------------------------------------------------------

changePassword_checkRateLimit(r) ==
  settings_checkRateLimit(r, "changePassword", "change-password")

changePassword_requireAuth(r) ==
  settings_requireAuth(r, "changePassword",
                       changePasswordSchemaIssues(req[r].form), "signInWithPassword")

\* the sign-in error ignored
signInFailed_never(match) == FALSE

\* if (signInError)
signInFailed(match) == match = { }

SignInEntry(match) ==
  IF match = { } THEN "signInWithPassword:error" ELSE "signInWithPassword:ok"

\* the session cookie after auth.signInWithPassword
SignedIn(c, match) ==
  IF match = { } THEN session ELSE [ session EXCEPT ![c] = CHOOSE u \in match : TRUE ]

changePassword_signInWithPassword(r) ==
  /\ At(r, "changePassword", "signInWithPassword")
  /\ LET match == SignInMatch(users[authUser[r]].email, req[r].form.currentPassword)
     IN  /\ session' = SignedIn(req[r].client, match)
         /\ IF signInFailed(match)
              THEN Return(r, Fail("Current password is incorrect"), << SignInEntry(match) >>)
              ELSE Goto(r, "updateUser", << SignInEntry(match) >>)
  /\ UNCHANGED << users, profiles, rateCount, siteUrl, req, authUser, oauth, overlapped >>

changePassword_updateUser(r) ==
  /\ At(r, "changePassword", "updateUser")
  /\ LET user == GetUser(req[r].client)
     IN  \E providerOk \in BOOLEAN :
           IF user # NoUser /\ providerOk
             THEN /\ users' = [ users EXCEPT ![user].password = req[r].form.newPassword ]
                  /\ Return(r, [ success |-> TRUE,
                                 message |-> "Password updated successfully" ],
                            << "updateUser:ok" >>)
             ELSE /\ users' = users
                  /\ Return(r, Fail(IF user = NoUser THEN "Auth session missing!"
                                    ELSE "Password update failed"),
                            << "updateUser:error" >>)
  /\ UNCHANGED << profiles, session, rateCount, siteUrl, req, authUser, oauth, overlapped >>

\* ------------------------------------------------------------------------
\* changeUsername(formData)
\* ------------------------------------------------------------------------

changeUsername_checkRateLimit(r) ==
  settings_checkRateLimit(r, "changeUsername", "change-username")

changeUsername_requireAuth(r) ==
  settings_requireAuth(r, "changeUsername",
                       changeUsernameSchemaIssues(req[r].form), "select")

changeUsername_select(r) ==
  /\ At(r, "changeUsername", "select")
  /\ LET data == changeUsernameSchemaData(req[r].form)
         existingProfile == SelectByUsername(data.username) \ { authUser[r] }
     IN  IF existingProfile # { }
           THEN Return(r, Fail("Username is already taken"), << "select:found" >>)
           ELSE Goto(r, "update", << "select:none" >>)
  /\ UNCHANGED << users, profiles, session, rateCount, siteUrl, req, authUser, oauth, overlapped >>

\* .update({ username, updated_at }).eq('id', user.id): the rows written
\* the update without .eq('id', user.id)
changeUsernameRows_all(user) == { u \in UserIds : profiles[u].present }

changeUsernameRows(user) == { u \in UserIds : u = user /\ profiles[u].present }

changeUsername_update(r) ==
  /\ At(r, "changeUsername", "update")
  /\ LET data == changeUsernameSchemaData(req[r].form)
         rows == changeUsernameRows(authUser[r])
     IN  IF \E u \in rows : ~UsernameFree(data.username, u)
           THEN /\ profiles' = profiles
                /\ Return(r, Fail("duplicate key value violates unique constraint"),
                          << "update:error" >>)
           ELSE /\ profiles' = [ u \in UserIds |->
                                   IF u \in rows
                                     THEN [ profiles[u] EXCEPT !.username = data.username ]
                                     ELSE profiles[u] ]
                /\ Return(r, [ success |-> TRUE,
                               message |-> "Username updated successfully" ],
                          << "update:ok" >>)
  /\ UNCHANGED << users, session, rateCount, siteUrl, req, authUser, oauth, overlapped >>

\* ------------------------------------------------------------------------
\* updateProfile(formData)
\* ------------------------------------------------------------------------

\* displayName || null
OrNull(v) == IF Falsy(v) THEN Null ELSE v

updateProfile_requireAuth(r) ==
  settings_requireAuth(r, "updateProfile",
                       updateProfileSchemaIssues(req[r].form), "update")

updateProfile_update(r) ==
  /\ At(r, "updateProfile", "update")
  /\ LET user == authUser[r]
     IN  \E providerOk \in BOOLEAN :
           IF providerOk
             THEN /\ profiles' =
                       IF profiles[user].present
                         THEN [ profiles EXCEPT
                                  ![user].display_name = OrNull(req[r].form.displayName),
                                  ![user].bio = OrNull(req[r].form.bio) ]
                         ELSE profiles
                  /\ Return(r, [ success |-> TRUE,
                                 message |-> "Profile updated successfully" ],
                            << "update:ok" >>)
             ELSE /\ profiles' = profiles
                  /\ Return(r, Fail("Profile update failed"), << "update:error" >>)
  /\ UNCHANGED << users, session, rateCount, siteUrl, req, authUser, oauth, overlapped >>

\* ------------------------------------------------------------------------
\* updateNotificationPreferences(formData)
\* ------------------------------------------------------------------------

\* formData.get(field) === 'true'
IsTrueText(v) == v = TrueText

notificationPreferences(f) ==
  [ securityAlerts |-> IsTrueText(f.securityAlerts),
    emailUpdates |-> IsTrueText(f.emailUpdates) ]

updateNotificationPreferences_requireAuth(r) ==
  settings_requireAuth(r, "updateNotificationPreferences",
                       notificationPreferencesSchemaIssues(
                         notificationPreferences(req[r].form)), "update")

updateNotificationPreferences_update(r) ==
  /\ At(r, "updateNotificationPreferences", "update")
  /\ LET user == authUser[r]
         preferences == notificationPreferences(req[r].form)
     IN  \E providerOk \in BOOLEAN :
           IF providerOk
             THEN /\ profiles' =
                       IF profiles[user].present
                         THEN [ profiles EXCEPT
                                  ![user].security_alerts = preferences.securityAlerts,
                                  ![user].email_updates = preferences.emailUpdates ]
                         ELSE profiles
                  /\ Return(r, [ success |-> TRUE,
                                 message |-> "Notification preferences updated" ],
                            << "update:ok" >>)
             ELSE /\ profiles' = profiles
                  /\ Return(r, Fail("Preferences update failed"), << "update:error" >>)
  /\ UNCHANGED << users, session, rateCount, siteUrl, req, authUser, oauth, overlapped >>

\* ------------------------------------------------------------------------
\* deleteAccount(formData)
\* ------------------------------------------------------------------------

\* every caller taken for an OAuth-only user
isOAuthOnly_always(identities) == TRUE

\* !identities.some(id => id.provider === 'email')
isOAuthOnly(identities) == "email" \notin identities

\* the messages auth.admin.deleteUser may fail with
DeleteErrors == { "User not allowed", "Request not authorized", "Database error deleting user" }

\* deleteError.message.includes('not authorized')
IncludesNotAuthorized(message) == message \in { "Request not authorized" }

deleteAccount_checkRateLimit(r) ==
  settings_checkRateLimit(r, "deleteAccount", "delete-account")

deleteAccount_requireAuth(r) ==
  /\ At(r, "deleteAccount", "requireAuth")
  /\ LET user == GetUser(req[r].client)
         f == req[r].form
     IN  /\ authUser' = [ authUser EXCEPT ![r] = user ]
         /\ IF user = NoUser
              THEN Return(r, catchResult(NotLoggedIn), << AuthEntry(user) >>)
              ELSE IF f.confirmText # DELETE
                THEN Return(r, Fail("Please type DELETE to confirm"),
                            << AuthEntry(user), "validate:issues" >>)
                ELSE IF ~isOAuthOnly(users[user].identities)
                  THEN IF Falsy(f.password)
                         THEN Return(r, Fail("Password is required to delete your account"),
                                     << AuthEntry(user), "validate:issues" >>)
                         ELSE Goto(r, "signInWithPassword",
                                   << AuthEntry(user), "validate:ok" >>)
                  ELSE Goto(r, "deleteUser", << AuthEntry(user), "validate:ok" >>)
  /\ UNCHANGED << users, profiles, session, rateCount, siteUrl, req, oauth, overlapped >>

\* a refused password ending the session
deleteAccount_signInWithPassword_signsOut(r) ==
  /\ At(r, "deleteAccount", "signInWithPassword")
  /\ LET match == SignInMatch(users[authUser[r]].email, req[r].form.password)
     IN  IF signInFailed(match)
           THEN /\ session' = [ session EXCEPT ![req[r].client] = NoUser ]
                /\ Return(r, Fail("Incorrect password"), << SignInEntry(match) >>)
           ELSE /\ session' = SignedIn(req[r].client, match)
                /\ Goto(r, "deleteUser", << SignInEntry(match) >>)
  /\ UNCHANGED << users, profiles, rateCount, siteUrl, req, authUser, oauth, overlapped >>

deleteAccount_signInWithPassword(r) ==
  /\ At(r, "deleteAccount", "signInWithPassword")
  /\ LET match == SignInMatch(users[authUser[r]].email, req[r].form.password)
     IN  /\ session' = SignedIn(req[r].client, match)
         /\ IF signInFailed(match)
              THEN Return(r, Fail("Incorrect password"), << SignInEntry(match) >>)
              ELSE Goto(r, "deleteUser", << SignInEntry(match) >>)
  /\ UNCHANGED << users, profiles, rateCount, siteUrl, req, authUser, oauth, overlapped >>

\* what the action does with the outcome of auth.admin.deleteUser: "ok" is
\* no error, any other outcome is the error's message
DeleteEntry(outcome) == IF outcome = "ok" THEN "deleteUser:ok" ELSE "deleteUser:error"

\* the deletion error ignored
deleteAccount_afterDelete_unchecked(r, outcome) ==
  Goto(r, "signOut", << DeleteEntry(outcome) >>)

deleteAccount_afterDelete(r, outcome) ==
  IF outcome # "ok"
    THEN IF IncludesNotAuthorized(outcome)
           THEN Goto(r, "signOutFallback", << DeleteEntry(outcome) >>)
           ELSE Return(r, Fail(outcome), << DeleteEntry(outcome) >>)
    ELSE Goto(r, "signOut", << DeleteEntry(outcome) >>)

deleteAccount_deleteUser(r) ==
  /\ At(r, "deleteAccount", "deleteUser")
  /\ LET user == authUser[r]
     IN  \E outcome \in { "ok" } \cup DeleteErrors :
           /\ IF outcome = "ok" /\ users[user].status = "active"
                THEN /\ users' = [ users EXCEPT ![user].status = "deleted" ]
                     /\ profiles' = [ profiles EXCEPT ![user] = NoProfile ]
                ELSE UNCHANGED << users, profiles >>
           /\ deleteAccount_afterDelete(r, outcome)
  /\ UNCHANGED << session, rateCount, siteUrl, req, authUser, oauth, overlapped >>

\* the sign-out after the deletion throwing into the catch block
deleteAccount_signOut_throws(r) ==
  /\ At(r, "deleteAccount", "signOut")
  /\ session' = session
  /\ Return(r, catchResult("Auth session missing!"), << "signOut" >>)
  /\ UNCHANGED << users, profiles, rateCount, siteUrl, req, authUser, oauth, overlapped >>

\* await supabase.auth.signOut() after the deletion; then the function leaves
\* the try block and reaches redirect('/login?deleted=true')
deleteAccount_signOut(r) ==
  /\ At(r, "deleteAccount", "signOut")
  /\ session' = [ session EXCEPT ![req[r].client] = NoUser ]
  /\ Redirect(r, "/login?deleted=true", << "signOut" >>)
  /\ UNCHANGED << users, profiles, rateCount, siteUrl, req, authUser, oauth, overlapped >>

\* the fallback when the admin API refuses: sign out and report
deleteAccount_signOutFallback(r) ==
  /\ At(r, "deleteAccount", "signOutFallback")
  /\ session' = [ session EXCEPT ![req[r].client] = NoUser ]
  /\ Return(r, Fail("Account deletion requires admin access. Please contact support."),
            << "signOut" >>)
  /\ UNCHANGED << users, profiles, rateCount, siteUrl, req, authUser, oauth, overlapped >>

\* ------------------------------------------------------------------------
\* requestAccountDeletion()
\* ------------------------------------------------------------------------

requestAccountDeletion_checkRateLimit(r) ==
  settings_checkRateLimit(r, "requestAccountDeletion", "delete-request")

requestAccountDeletion_requireAuth(r) ==
  /\ At(r, "requestAccountDeletion", "requireAuth")
  /\ LET user == GetUser(req[r].client)
     IN  /\ authUser' = [ authUser EXCEPT ![r] = user ]
         /\ IF user = NoUser
              THEN Return(r, catchResult(NotLoggedIn), << AuthEntry(user) >>)
              ELSE Return(r, [ success |-> TRUE,
                               message |-> << "A confirmation email has been sent to ",
                                              users[user].email >> ],
                          << AuthEntry(user) >>)
  /\ UNCHANGED << users, profiles, session, rateCount, siteUrl, req, oauth, overlapped >>

\* ------------------------------------------------------------------------
\* signout(), signInWithGithub(), signInWithGoogle()
\* ------------------------------------------------------------------------

signout_signOut(r) ==
  /\ At(r, "signout", "signOut")
  /\ session' = [ session EXCEPT ![req[r].client] = NoUser ]
  /\ Redirect(r, "/login", << "signOut" >>)
  /\ UNCHANGED << users, profiles, rateCount, siteUrl, req, authUser, oauth, overlapped >>

OAuthProvider(action) == IF action = "signInWithGithub" THEN "github" ELSE "google"

\* the configuration check dropped
siteUrlMissing_never(env) == FALSE

\* if (!siteUrl)
siteUrlMissing(env) == ~env.defined \/ env.value = ""

\* `${siteUrl}/auth/callback`
oauthRedirectTo(env) == env.value \o "/auth/callback"

\* const siteUrl = process.env.SITE_URL; if (!siteUrl) redirect('/error')
signInWithOAuth_siteUrl(r) ==
  /\ req[r].action \in { "signInWithGithub", "signInWithGoogle" }
  /\ pc[r] = "siteUrl"
  /\ IF siteUrlMissing(siteUrl)
       THEN Redirect(r, "/error", << >>)
       ELSE Goto(r, "signInWithOAuth", << >>)
  /\ UNCHANGED << users, profiles, session, rateCount, siteUrl, req, authUser, oauth, overlapped >>

\* what auth.signInWithOAuth answers: an error, a url to go to, or neither
OAuthOutcomes == { "error", "url", "nourl" }
ProviderUrl == "https://provider.example/authorize"

signInWithOAuth_call(r) ==
  /\ req[r].action \in { "signInWithGithub", "signInWithGoogle" }
  /\ pc[r] = "signInWithOAuth"
  /\ oauth' = [ oauth EXCEPT ![r] = [ provider |-> OAuthProvider(req[r].action),
                                      redirectTo |-> oauthRedirectTo(siteUrl) ] ]
  /\ \E outcome \in OAuthOutcomes :
       CASE outcome = "error" -> Redirect(r, "/error", << "signInWithOAuth:error" >>)
         [] outcome = "url" -> Redirect(r, ProviderUrl, << "signInWithOAuth:ok" >>)
         [] outcome = "nourl" ->
              Return(r, Undefined, << "signInWithOAuth:ok" >>)
  /\ UNCHANGED << users, profiles, session, rateCount, siteUrl, req, authUser, overlapped >>

\* ------------------------------------------------------------------------
\* The system
\* ------------------------------------------------------------------------

Next ==
  \E r \in Slots :
    \/ Invoke(r)
    \/ login_checkRateLimit(r)
    \/ login_signInWithPassword(r)
    \/ signup_checkRateLimit(r)
    \/ signup_select(r)
    \/ signup_signUp(r)
    \/ changePassword_checkRateLimit(r)
    \/ changePassword_requireAuth(r)
    \/ changePassword_signInWithPassword(r)
    \/ changePassword_updateUser(r)
    \/ changeUsername_checkRateLimit(r)
    \/ changeUsername_requireAuth(r)
    \/ changeUsername_select(r)
    \/ changeUsername_update(r)
    \/ updateProfile_requireAuth(r)
    \/ updateProfile_update(r)
    \/ updateNotificationPreferences_requireAuth(r)
    \/ updateNotificationPreferences_update(r)
    \/ deleteAccount_checkRateLimit(r)
    \/ deleteAccount_requireAuth(r)
    \/ deleteAccount_signInWithPassword(r)
    \/ deleteAccount_deleteUser(r)
    \/ deleteAccount_signOut(r)
    \/ deleteAccount_signOutFallback(r)
    \/ requestAccountDeletion_checkRateLimit(r)
    \/ requestAccountDeletion_requireAuth(r)
    \/ signout_signOut(r)
    \/ signInWithOAuth_siteUrl(r)
    \/ signInWithOAuth_call(r)

Spec == Init /\ [][Next]_vars

\* ------------------------------------------------------------------------
\* The validators on a form as it is typed: one field of the form is typed
\* character by character and then completed by pasted text, and after every
\* change the form's validator is applied to the form
\* ------------------------------------------------------------------------

\* the characters typed one at a time into the field
MaxTyped == 4

ParseKinds ==
  { "validatePasswordStrength", "signupSchema.username", "signupSchema.fullName",
    "changeUsernameSchema", "loginSchema", "changePasswordSchema" }

Repeat(c, n) == [ i \in 1..n |-> c ]

\* a password that can be typed and pasted into the field
PwTyped == << "Q", "7", "@", "a" >> \o Repeat("a", 5)

\* the keys pressed in the field each validator reads
Keys(schema) ==
  CASE schema \in { "validatePasswordStrength", "changePasswordSchema" } ->
         { "a", "Q", "7", "@", "#" }
    [] schema \in { "signupSchema.username", "changeUsernameSchema" } ->
         { "a", "Z", "5", "_", "-" }
    [] schema = "signupSchema.fullName" -> { "a", "5", " ", "'", "-" }
    [] schema = "loginSchema" -> { "a", "5", "@", ".", "-" }

\* the text pasted after the typed characters
Pasted(schema) ==
  CASE schema \in { "validatePasswordStrength", "changePasswordSchema" } -> Repeat("a", 5)
    [] schema \in { "signupSchema.username", "changeUsernameSchema" } -> Repeat("b", 9)
    [] schema = "signupSchema.fullName" -> Repeat("a", 49)
    [] schema = "loginSchema" -> << ".", "i", "o" >>

\* the longest text the field is given
MaxText(schema) ==
  CASE schema \in { "validatePasswordStrength", "changePasswordSchema" } -> 5 + MaxTyped
    [] schema \in { "signupSchema.username", "changeUsernameSchema" } -> 18 + MaxTyped
    [] schema = "signupSchema.fullName" -> 98 + MaxTyped
    [] schema = "loginSchema" -> 6 + MaxTyped

\* the other fields of the form
RestForms(schema) ==
  CASE schema = "loginSchema" -> { [ password |-> << >> ], [ password |-> PwA ] }
    [] schema = "changePasswordSchema" ->
         { [ currentPassword |-> c, confirmNewPassword |-> n ] :
             c \in { << >>, PwTyped, PwB }, n \in { << >>, PwTyped, PwB } }
    [] OTHER -> { [ none |-> TRUE ] }

\* the value handed to the validator
ParseForm(schema, text, rest) ==
  CASE schema = "validatePasswordStrength" -> text
    [] schema = "signupSchema.username" ->
         [ fullName |-> << "A", "l" >>, username |-> text, email |-> MailC,
           password |-> PwA ]
    [] schema = "signupSchema.fullName" ->
         [ fullName |-> text, username |-> NameCat, email |-> MailC, password |-> PwA ]
    [] schema = "changeUsernameSchema" -> [ username |-> text ]
    [] schema = "loginSchema" -> [ email |-> text, password |-> rest.password ]
    [] schema = "changePasswordSchema" ->
         [ currentPassword |-> rest.currentPassword, newPassword |-> text,
           confirmNewPassword |-> rest.confirmNewPassword ]

\* schema.safeParse(form): success with the parsed data, or the issues
SafeParse(issues, data) ==
  IF issues = << >> THEN [ success |-> TRUE, data |-> data ]
  ELSE [ success |-> FALSE, issues |-> issues ]

Applied(schema, form) ==
  CASE schema = "validatePasswordStrength" -> validatePasswordStrength(form)
    [] schema \in { "signupSchema.username", "signupSchema.fullName" } ->
         SafeParse(signupSchemaIssues(form), signupSchemaData(form))
    [] schema = "changeUsernameSchema" ->
         SafeParse(changeUsernameSchemaIssues(form), changeUsernameSchemaData(form))
    [] schema = "loginSchema" -> SafeParse(loginSchemaIssues(form), loginSchemaData(form))
    [] schema = "changePasswordSchema" -> SafeParse(changePasswordSchemaIssues(form), form)

\* the field holds `text`: the form and what the validator says of it
Typed(schema, text, rest, pasted) ==
  [ schema |-> schema, text |-> text, rest |-> rest, pasted |-> pasted,
    form |-> ParseForm(schema, text, rest),
    result |-> Applied(schema, ParseForm(schema, text, rest)) ]

server ==
  << users, profiles, session, rateCount, siteUrl, pc, req, authUser, calls, out, oauth,
     overlapped >>

SchemaInit ==
  /\ ServerInit
  /\ users["u2"].identities = { "github" }
  /\ rateCount = [ k \in RateKeys |-> 0 ]
  /\ siteUrl = [ defined |-> TRUE, value |-> "https://jt.dev" ]
  /\ \E schema \in ParseKinds :
       \E rest \in RestForms(schema) : parse = Typed(schema, << >>, rest, FALSE)
  /\ thread = NoThread
  /\ page = NoPage

\* a key is pressed in the field
typeText ==
  /\ ~parse.pasted
  /\ Len(parse.text) < MaxTyped
  /\ \E c \in Keys(parse.schema) :
       parse' = Typed(parse.schema, Append(parse.text, c), parse.rest, FALSE)
  /\ UNCHANGED << server, thread, page >>

\* text is pasted at the end of the field
pasteText ==
  /\ Len(parse.text) + Len(Pasted(parse.schema)) <= MaxText(parse.schema)
  /\ parse' = Typed(parse.schema, parse.text \o Pasted(parse.schema), parse.rest, TRUE)
  /\ UNCHANGED << server, thread, page >>

SchemaNext == typeText \/ pasteText

SchemaSpec == SchemaInit /\ [][SchemaNext]_vars

\* ------------------------------------------------------------------------
\* CommentThread, the recursive comment renderer: CommentThreadBase renders
\* one comment and, for each reply, the exported memo(CommentThreadBase)
\* ------------------------------------------------------------------------

\* the clicks on one comment's Reply button
MaxClicks == 3

\* the comments of the thread, and the comment each one replies to
Comments == { "c1", "c1-r1", "c1-r2", "c1-r1-a", "c2" }

NoComment == "null"

parent_comment_id(c) ==
  CASE c \in { "c1-r1", "c1-r2" } -> "c1"
    [] c = "c1-r1-a" -> "c1-r1"
    [] OTHER -> NoComment

\* the recursive call names the base function
recursionMemoized_base == FALSE

\* the recursive call in CommentThreadBase names the memoized export
recursionMemoized == TRUE

\* React.memo skips a component whose props are the references it was last
\* rendered with; the top-level comments are rendered through the export
memoSkips(c, sameProps) ==
  sameProps /\ (parent_comment_id(c) = NoComment \/ recursionMemoized)

\* whether an update renders comment c: its own state was set, or its parent
\* (the comments section, for a top-level comment) rendered and memo did not
\* skip it
RECURSIVE Renders(_, _, _, _)
Renders(c, stateSet, sectionRendered, sameProps) ==
  \/ c \in stateSet
  \/ /\ IF parent_comment_id(c) = NoComment THEN sectionRendered
        ELSE Renders(parent_comment_id(c), stateSet, sectionRendered, sameProps)
     /\ ~memoSkips(c, sameProps)

Rendered(stateSet, sectionRendered, sameProps) ==
  { c \in Comments : Renders(c, stateSet, sectionRendered, sameProps) }

\* the form is hidden whatever it was
toggled_hide(shown) == FALSE

\* setShowReplyForm(!showReplyForm)
toggled(shown) == ~shown

ThreadInit ==
  /\ ServerInit
  /\ users["u2"].identities = { "github" }
  /\ rateCount = [ k \in RateKeys |-> 0 ]
  /\ siteUrl = [ defined |-> TRUE, value |-> "https://jt.dev" ]
  /\ parse = NoParse
  /\ page = NoPage
  /\ thread = NoThread

\* render(<CommentsSection postId comments />): every comment renders, with
\* its reply form hidden
thread_render ==
  /\ ~thread.mounted
  /\ thread' = [ mounted |-> TRUE,
                 showReplyForm |-> [ c \in Comments |-> FALSE ],
                 clicks |-> [ c \in Comments |-> 0 ],
                 event |-> [ kind |-> "render" ],
                 rendered |-> Comments ]
  /\ UNCHANGED << server, parse, page >>

\* rerender(<CommentsSection postId comments />), with the comment objects it
\* was rendered with or with new ones
thread_rerender ==
  /\ thread.mounted
  /\ \E sameProps \in BOOLEAN :
       thread' = [ thread EXCEPT
                     !.event = [ kind |-> "rerender", sameProps |-> sameProps ],
                     !.rendered = Rendered({ }, TRUE, sameProps) ]
  /\ UNCHANGED << server, parse, page >>

\* a click on the Reply button of comment c
thread_clickReply ==
  /\ thread.mounted
  /\ \E c \in Comments :
       /\ thread.clicks[c] < MaxClicks
       /\ thread' = [ thread EXCEPT
                        !.showReplyForm[c] = toggled(@),
                        !.clicks[c] = @ + 1,
                        !.event = [ kind |-> "click", target |-> c ],
                        !.rendered = Rendered({ c }, FALSE, TRUE) ]
  /\ UNCHANGED << server, parse, page >>

ThreadNext == thread_render \/ thread_rerender \/ thread_clickReply

ThreadSpec == ThreadInit /\ [][ThreadNext]_vars

\* ------------------------------------------------------------------------
\* The settings page and the login page in a browser. A page calls its
\* server action and waits; the call comes back with a result the action
\* returns, with a navigation (the action redirected), or it rejects (the
\* action threw before its try block, or the request failed)
\* ------------------------------------------------------------------------

\* the forms one page instance submits
MaxSubmits == 2

\* useState<string | null>(null)
NoMessage == "(null)"

SettingsForms ==
  { "updateProfile", "changeUsername", "changePassword",
    "updateNotificationPreferences", "deleteAccount" }

\* getCurrentProfile(): requireAuth, then the caller's profile row
getCurrentProfile(c, selectOk) ==
  LET user == GetUser(c)
  IN  IF user = NoUser
        THEN [ profile |-> NoUser, user |-> NoUser, error |-> NotLoggedIn ]
        ELSE IF ~selectOk \/ ~profiles[user].present
          THEN [ profile |-> NoUser, user |-> NoUser, error |-> "Profile not found" ]
          ELSE [ profile |-> user, user |-> user, error |-> NoMessage ]

\* the error of the result ignored
hasError_never(result) == FALSE

\* if (result.error)
hasError(result) == result.error # NoMessage

\* what a call of a settings action comes back with
SettingsOutcomes(form) ==
  { [ kind |-> "return", value |-> Fail(NotLoggedIn) ],
    [ kind |-> "return", value |-> Fail("Update failed") ],
    [ kind |-> "throw" ] }
  \cup (IF form = "deleteAccount"
          THEN { [ kind |-> "redirect", to |-> "/login?deleted=true" ] }
          ELSE { [ kind |-> "return",
                   value |-> [ success |-> TRUE, message |-> "Updated" ] ] })

\* what a call of login or signup comes back with
AuthOutcomes ==
  { [ kind |-> "return", value |-> [ success |-> TRUE, redirectTo |-> "/" ] ],
    [ kind |-> "return", value |-> Fail("Invalid login credentials") ],
    [ kind |-> "throw" ] }

\* the checks handleSubmit makes of a signup form before it calls the action
SignupChecks == { "ok", "emailMismatch", "passwordMismatch", "usernameTaken" }

SignupCheckError(check) ==
  CASE check = "emailMismatch" -> "Email addresses do not match"
    [] check = "passwordMismatch" -> "Passwords do not match"
    [] check = "usernameTaken" -> "Username is already taken"

\* the sections of the settings page and the form each one shows
Sections == { "profile", "account", "security", "notifications", "danger" }

SectionOf(form) ==
  CASE form = "updateProfile" -> "profile"
    [] form = "changeUsername" -> "account"
    [] form = "changePassword" -> "security"
    [] form = "updateNotificationPreferences" -> "notifications"
    [] form = "deleteAccount" -> "danger"

\* the delay given to useDebounce, in ms
delay == 500

MaxChanges == 3

\* the usernames typed or pasted into the username field
TypedNames == { NameShort, NameBobUpper, NameCat }

\* const timeoutRef = { current: null }: useDebounce makes the object anew
\* in every render (the set holds the timer of timeoutRef.current, if any)
renderedTimeoutRef == { }

\* the state of SettingsPage and of LoginPage when they mount
SettingsPage(c) ==
  [ route |-> "/settings", client |-> c, isLogin |-> FALSE, isLoading |-> TRUE,
    isSubmitting |-> FALSE, pc |-> "loadProfile", form |-> "none", submits |-> 0,
    ended |-> "none", error |-> NoMessage, success |-> NoMessage, profile |-> NoUser,
    navigated |-> "", activeSection |-> "profile", username |-> << >>,
    usernameStatus |-> "idle", timeoutRef |-> renderedTimeoutRef, timers |-> { },
    inflight |-> { }, changes |-> 0, asked |-> { } ]

LoginPage(isLogin) ==
  [ route |-> "/login", client |-> "c0", isLogin |-> isLogin, isLoading |-> FALSE,
    isSubmitting |-> FALSE, pc |-> "idle", form |-> "none", submits |-> 0,
    ended |-> "none", error |-> NoMessage, success |-> NoMessage, profile |-> NoUser,
    navigated |-> "", activeSection |-> "none", username |-> << >>,
    usernameStatus |-> "idle", timeoutRef |-> renderedTimeoutRef, timers |-> { },
    inflight |-> { }, changes |-> 0, asked |-> { } ]

PageInit ==
  /\ ServerInit
  /\ users["u2"].identities = { "github" }
  /\ rateCount = [ k \in RateKeys |-> 0 ]
  /\ siteUrl = [ defined |-> TRUE, value |-> "https://jt.dev" ]
  /\ parse = NoParse
  /\ thread = NoThread
  /\ page \in { SettingsPage(c) : c \in Clients } \cup { LoginPage(b) : b \in BOOLEAN }

\* a render of the page: the closures of the next event see a new timeoutRef
render(p) == [ p EXCEPT !.timeoutRef = renderedTimeoutRef ]

\* the function useDebounce returns, called with `value` by change number id:
\* clearTimeout of the timer timeoutRef.current holds, then setTimeout
debounced(p, id, value) ==
  [ p EXCEPT !.timers = { t \in @ : t.id \notin p.timeoutRef }
                          \cup { [ id |-> id, value |-> value, left |-> delay ] },
             !.timeoutRef = { id } ]

\* profile?.username
profileUsername(p) == IF p.profile = NoUser THEN Null ELSE profiles[p.profile].username

\* checkUsernameAvailability(username) of the login actions
checkUsernameAvailability(username) ==
  IF Len(username) < 3 THEN FALSE
  ELSE SelectByUsername(ToLowerCase(username)) = { }

\* checkUsernameAvailable(username) of the settings actions, called by client c
checkUsernameAvailable(c, username) ==
  IF Len(username) < 3 THEN FALSE
  ELSE { u \in SelectByUsername(ToLowerCase(username)) :
           GetUser(c) = NoUser \/ u # GetUser(c) } = { }

\* loadProfile(), the effect of SettingsPage, once getCurrentProfile is back
settings_loadProfile ==
  /\ page.route = "/settings"
  /\ page.pc = "loadProfile"
  /\ \/ \E selectOk \in BOOLEAN :
          LET result == getCurrentProfile(page.client, selectOk)
          IN  IF hasError(result)
                THEN page' = [ page EXCEPT !.pc = "left", !.navigated = "/login" ]
                ELSE page' = [ page EXCEPT
                                 !.pc = "idle",
                                 !.profile = IF result.profile # NoUser /\ result.user # NoUser
                                               THEN result.profile ELSE @,
                                 !.username = IF result.profile # NoUser /\ result.user # NoUser
                                                THEN profiles[result.profile].username
                                                ELSE @,
                                 !.isLoading = FALSE ]
     \/ \* the call rejects: loadProfile ends without a word
        page' = [ page EXCEPT !.pc = "idle", !.ended = "threw" ]
  /\ UNCHANGED << server, parse, thread >>

\* the messages left as they are
clearMessages_none(p) == p

\* clearMessages()
clearMessages(p) == [ p EXCEPT !.error = NoMessage, !.success = NoMessage ]

\* the submit button of a form is disabled
submitDisabled(p, form) ==
  \/ p.isSubmitting
  \/ /\ form = "changeUsername"
     /\ p.usernameStatus = "taken" \/ p.username = profileUsername(p)

\* onSubmit of a settings form: the forms exist once the spinner is gone, the
\* form shown is the one of the active section, and a disabled button
\* submits nothing
settings_onSubmit ==
  /\ page.route = "/settings"
  /\ page.pc = "idle"
  /\ ~page.isLoading
  /\ page.submits < MaxSubmits
  /\ \E form \in SettingsForms :
       /\ SectionOf(form) = page.activeSection
       /\ ~submitDisabled(page, form)
       /\ page' = clearMessages([ page EXCEPT !.isSubmitting = TRUE, !.pc = "awaiting",
                                              !.form = form, !.submits = @ + 1,
                                              !.ended = "none" ])
  /\ UNCHANGED << server, parse, thread >>

\* handleResult(result)
handleResult(result) ==
  IF result.success
    THEN [ page EXCEPT !.success = IF "message" \in DOMAIN result THEN result.message
                                   ELSE "Updated successfully",
                       !.error = NoMessage, !.isSubmitting = FALSE,
                       !.pc = "idle", !.ended = "returned" ]
    ELSE [ page EXCEPT !.error = IF "error" \in DOMAIN result THEN result.error
                                 ELSE "An error occurred",
                       !.success = NoMessage, !.isSubmitting = FALSE,
                       !.pc = "idle", !.ended = "returned" ]

\* the awaited settings action is back: onSubmit goes on to handleResult,
\* the browser follows the action's redirect, or onSubmit ends with the
\* rejection, which nothing catches
settings_settle ==
  /\ page.route = "/settings"
  /\ page.pc = "awaiting"
  /\ \E outcome \in SettingsOutcomes(page.form) :
       page' = CASE outcome.kind = "return" -> handleResult(outcome.value)
                 [] outcome.kind = "redirect" ->
                      [ page EXCEPT !.pc = "left", !.navigated = outcome.to ]
                 [] outcome.kind = "throw" ->
                      [ page EXCEPT !.pc = "idle", !.ended = "threw" ]
  /\ UNCHANGED << server, parse, thread >>

\* the page is on screen with its sidebar and forms
settingsShown == page.route = "/settings" /\ ~page.isLoading /\ page.pc # "left"

\* onClick of a sidebar button: setActiveSection(section.id); clearMessages()
settings_setActiveSection ==
  /\ settingsShown
  /\ \E section \in Sections :
       page' = clearMessages([ page EXCEPT !.activeSection = section ])
  /\ UNCHANGED << server, parse, thread >>

\* onClick of the X of the message banner, shown while error || success
settings_dismiss ==
  /\ settingsShown
  /\ page.error # NoMessage \/ page.success # NoMessage
  /\ page' = clearMessages(page)
  /\ UNCHANGED << server, parse, thread >>

\* a change of the username field is handed to the debounced check, and the
\* state it sets renders the page again
usernameChanged(value) ==
  /\ page.changes < MaxChanges
  /\ \A t \in page.timers : t.left > 0
  /\ page' = render(debounced([ page EXCEPT !.username = value, !.changes = @ + 1 ],
                              page.changes + 1, value))

\* onChange of the username input of the Account section
settings_onChange ==
  /\ settingsShown
  /\ page.activeSection = "account"
  /\ \E value \in TypedNames : usernameChanged(ToLowerCase(value))
  /\ UNCHANGED << server, parse, thread >>

\* handleInputChange('username', value): the field exists in signup mode
login_handleInputChange ==
  /\ page.route = "/login"
  /\ page.pc # "left"
  /\ ~page.isLogin
  /\ \E value \in TypedNames : usernameChanged(value)
  /\ UNCHANGED << server, parse, thread >>

\* time passes while a timer is pending, and a timer that is due runs first
timePasses ==
  /\ page.route \in { "/settings", "/login" }
  /\ page.pc # "left"
  /\ page.timers # { }
  /\ \A t \in page.timers : t.left > 0
  /\ page' = [ page EXCEPT !.timers = { [ t EXCEPT !.left = @ - 250 ] : t \in @ } ]
  /\ UNCHANGED << server, parse, thread >>

\* the callback given to useDebounce, up to its await: the timer of change
\* t.id is due and calls checkUsername(t.value)
checkUsername_timeout ==
  /\ page.route \in { "/settings", "/login" }
  /\ page.pc # "left"
  /\ \E t \in page.timers :
       /\ t.left = 0
       /\ \A o \in page.timers : o.left = 0 => t.id <= o.id
       /\ IF \/ Len(t.value) < 3
             \/ page.route = "/settings" /\ t.value = profileUsername(page)
            THEN page' = [ page EXCEPT !.timers = @ \ { t }, !.usernameStatus = "idle" ]
            ELSE page' = [ page EXCEPT
                             !.timers = @ \ { t },
                             !.usernameStatus = "checking",
                             !.inflight = @ \cup { [ id |-> t.id, value |-> t.value ] },
                             !.asked = @ \cup { [ change |-> t.id,
                                                  latest |-> page.changes ] } ]
  /\ UNCHANGED << server, parse, thread >>

\* the callback after its await: the availability of q.value is back, in any
\* order, or the call rejects and the callback ends there
checkUsername_resume ==
  /\ page.route \in { "/settings", "/login" }
  /\ page.pc # "left"
  /\ \E q \in page.inflight :
       \/ LET available == IF page.route = "/login"
                             THEN checkUsernameAvailability(q.value)
                             ELSE checkUsernameAvailable(page.client, q.value)
          IN  page' = [ page EXCEPT
                          !.inflight = @ \ { q },
                          !.usernameStatus = IF available THEN "available" ELSE "taken" ]
       \/ page' = [ page EXCEPT !.inflight = @ \ { q } ]
  /\ UNCHANGED << server, parse, thread >>

\* handleSubmit of the login page, up to the call of the action; the submit
\* button is disabled while loading and, in signup mode, while the username
\* is marked taken
login_handleSubmit ==
  /\ page.route = "/login"
  /\ page.pc = "idle"
  /\ ~page.isLoading
  /\ ~(~page.isLogin /\ page.usernameStatus = "taken")
  /\ page.submits < MaxSubmits
  /\ \E mismatch \in (IF page.isLogin THEN { "ok" }
                      ELSE { "ok", "emailMismatch", "passwordMismatch" }) :
       LET check == IF mismatch = "ok" /\ ~page.isLogin /\ page.usernameStatus = "taken"
                      THEN "usernameTaken" ELSE mismatch
       IN  IF check # "ok"
             THEN page' = [ page EXCEPT !.error = SignupCheckError(check),
                                        !.isLoading = FALSE, !.submits = @ + 1,
                                        !.form = "signup", !.ended = "returned" ]
             ELSE page' = [ page EXCEPT !.error = NoMessage, !.isLoading = TRUE,
                                        !.pc = "awaiting", !.submits = @ + 1,
                                        !.form = IF page.isLogin THEN "login" ELSE "signup",
                                        !.ended = "none" ]
  /\ UNCHANGED << server, parse, thread >>

\* the awaited login or signup is back: the try block of handleSubmit, or its
\* catch block
login_settle ==
  /\ page.route = "/login"
  /\ page.pc = "awaiting"
  /\ \E outcome \in AuthOutcomes :
       page' =
         IF outcome.kind = "throw"
           THEN [ page EXCEPT !.error = "An unexpected error occurred",
                              !.isLoading = FALSE, !.pc = "idle", !.ended = "returned" ]
           ELSE LET result == outcome.value
                IN  IF result.success /\ "redirectTo" \in DOMAIN result
                      THEN [ page EXCEPT !.pc = "left", !.navigated = result.redirectTo ]
                      ELSE IF "error" \in DOMAIN result
                        THEN [ page EXCEPT !.error = result.error, !.isLoading = FALSE,
                                           !.pc = "idle", !.ended = "returned" ]
                        ELSE [ page EXCEPT !.pc = "idle", !.ended = "returned" ]
  /\ UNCHANGED << server, parse, thread >>

\* toggleMode: the login page switches between login and signup and empties
\* its form; the pending timers and calls are left alone
login_toggleMode ==
  /\ page.route = "/login"
  /\ page.pc = "idle"
  /\ page' = [ page EXCEPT !.isLogin = ~@, !.error = NoMessage, !.username = << >>,
                           !.usernameStatus = "idle" ]
  /\ UNCHANGED << server, parse, thread >>

PageNext ==
  \/ settings_loadProfile
  \/ settings_onSubmit
  \/ settings_settle
  \/ settings_setActiveSection
  \/ settings_dismiss
  \/ login_handleSubmit
  \/ login_settle
  \/ login_toggleMode

\* the pages used without a keystroke in the username field
PageSpec == PageInit /\ [][PageNext]_vars

TypingNext ==
  \/ PageNext
  \/ login_handleInputChange
  \/ settings_onChange
  \/ timePasses
  \/ checkUsername_timeout
  \/ checkUsername_resume

\* the pages with the username field in use
TypingSpec == PageInit /\ [][TypingNext]_vars

\* ------------------------------------------------------------------------
\* Vocabulary of the properties
\* ------------------------------------------------------------------------

Done(r) == pc[r] = "done"
Returned(r) == Done(r) /\ out[r].kind = "return"
ReturnedValue(r, value) == Done(r) /\ out[r] = [ kind |-> "return", value |-> value ]
RedirectedTo(r, path) == Done(r) /\ out[r] = [ kind |-> "redirect", to |-> path ]

\* a result object: a boolean success, an error exactly when success is false
IsResult(v) ==
  /\ "success" \in DOMAIN v
  /\ v.success \in BOOLEAN
  /\ v.success <=> "error" \notin DOMAIN v

ReturnedFailure(r) ==
  /\ Returned(r)
  /\ IsResult(out[r].value)
  /\ ~out[r].value.success

Succeeded(r) == Returned(r) /\ IsResult(out[r].value) /\ out[r].value.success

Entries(r) == Range(calls[r])
Last(r) == IF calls[r] = << >> THEN "" ELSE calls[r][Len(calls[r])]

RateEntries == { "checkRateLimit:ok", "checkRateLimit:exceeded" }
AuthEntries == { "getUser:ok", "getUser:none" }
ValidateEntries == { "validate:ok", "validate:issues" }
\* calls to the backend provider other than the authentication lookup
ProviderEntries ==
  { "select:found", "select:none", "signInWithPassword:ok", "signInWithPassword:error",
    "signUp:ok", "signUp:error", "updateUser:ok", "updateUser:error",
    "update:ok", "update:error", "deleteUser:ok", "deleteUser:error", "signOut" }
\* calls that change an account, a profile or a session
WriteEntries ==
  { "signInWithPassword:ok", "signInWithPassword:error", "signUp:ok", "signUp:error",
    "updateUser:ok", "updateUser:error", "update:ok", "update:error",
    "deleteUser:ok", "deleteUser:error", "signOut" }
\* the failures after which an action returns at once
FailureEntries ==
  { "checkRateLimit:exceeded", "getUser:none", "validate:issues", "select:found",
    "signInWithPassword:error", "signUp:error", "updateUser:error", "update:error" }

PipelineActions == { "login", "signup", "changePassword", "changeUsername", "deleteAccount" }
SettingsActions ==
  { "changePassword", "changeUsername", "updateProfile",
    "updateNotificationPreferences", "deleteAccount", "requestAccountDeletion" }
RateLimitedActions == PipelineActions \cup { "requestAccountDeletion" }

TooManyMessage(a) ==
  CASE a = "login" -> "Too many login attempts. Please try again later."
    [] a = "signup" -> "Too many signup attempts. Please try again later."
    [] OTHER -> "Too many attempts. Please try again later."

\* ------------------------------------------------------------------------
\* C1 - order of the steps of a sensitive action
\* ------------------------------------------------------------------------

\* C1 as stated: in login, signup, changePassword, changeUsername and
\* deleteAccount the rate-limit check comes first, no call to the backend
\* provider (the authentication lookup included) is made before validation
\* has passed, and a failed step is the last step of the request.
C1_AsStated ==
  \A r \in Slots :
    req[r].action \in PipelineActions =>
      \A i \in 1..Len(calls[r]) :
        /\ calls[r][i] \in RateEntries <=> i = 1
        /\ calls[r][i] \in AuthEntries \cup ProviderEntries =>
             \E j \in 1..(i - 1) : calls[r][j] = "validate:ok"
        /\ calls[r][i] \in FailureEntries \cup { "deleteUser:error" } => i = Len(calls[r])

\* C1, amended: the rate-limit check is the first step.  login and signup
\* validate next and call the provider only after validation passed.
\* changePassword, changeUsername and deleteAccount first look the caller up
\* (auth.getUser, a provider call) and validate after it; every other
\* provider call comes after validation passed.  A failed rate-limit check,
\* lookup, validation or provider call ends the request with a failure
\* result and no later step, except that deleteAccount may sign out before
\* it returns the failure of deleteUser.
C1_StepOrder ==
  \A r \in Slots :
    req[r].action \in PipelineActions =>
      LET c == calls[r]
          settings == req[r].action \in SettingsActions
      IN  \A i \in 1..Len(c) :
            /\ c[i] \in RateEntries <=> i = 1
            /\ c[i] \in AuthEntries => settings /\ i = 2
            /\ c[i] \in ValidateEntries => i = (IF settings THEN 3 ELSE 2)
            /\ c[i] \in ProviderEntries =>
                 \E j \in 1..(i - 1) : c[j] = "validate:ok"
            /\ c[i] \in FailureEntries => i = Len(c) /\ ReturnedFailure(r)
            /\ c[i] = "deleteUser:error" =>
                 /\ i = Len(c) \/ (i = Len(c) - 1 /\ c[Len(c)] = "signOut")
                 /\ Done(r) => ReturnedFailure(r)

\* a password change that ran all its steps
C1_Witness ==
  \E r \in Slots :
    /\ req[r].action = "changePassword"
    /\ calls[r] = << "checkRateLimit:ok", "getUser:ok", "validate:ok",
                     "signInWithPassword:ok", "updateUser:ok" >>
    /\ Succeeded(r)

\* ------------------------------------------------------------------------
\* C2 - a rejected rate-limit check ends the action
\* ------------------------------------------------------------------------

\* C2: when the limiter reports the limit exceeded, the action returns
\* success=false with its too-many-attempts message after that single step
\* (no validation, no authentication lookup, no provider call), and the step
\* leaves users, profiles and sessions as they were.
C2_RateLimitedReturns ==
  /\ [](\A r \in Slots :
          "checkRateLimit:exceeded" \in Entries(r) =>
            /\ calls[r] = << "checkRateLimit:exceeded" >>
            /\ ReturnedValue(r, [ success |-> FALSE,
                                  error |-> TooManyMessage(req[r].action) ])
            /\ authUser[r] = NoUser)
  /\ [][\A r \in Slots :
          ("checkRateLimit:exceeded" \in Range(calls'[r])
             /\ "checkRateLimit:exceeded" \notin Entries(r)) => UNCHANGED backend]_vars

C2_Witness ==
  \E r \in Slots :
    /\ req[r].action = "deleteAccount"
    /\ "checkRateLimit:exceeded" \in Entries(r)
    /\ Done(r)

\* ------------------------------------------------------------------------
\* C3 - the first schema issue is the error
\* ------------------------------------------------------------------------

\* the issues of each field of the action's schema, fields in declared order,
\* the refinements of the object last
FieldIssues(a, f) ==
  CASE a = "login" ->
         << Check(IsEmail(f.email), "Please enter a valid email address"),
            Check(Len(f.password) >= 1, "Password is required") >>
    [] a = "signup" ->
         << fullNameIssues(f.fullName), usernameIssues(f.username),
            signupEmailIssues(f.email), passwordIssues(f.password) >>
    [] a = "changePassword" ->
         << Check(Len(f.currentPassword) >= 1, "Current password is required"),
            passwordIssues(f.newPassword),
            Check(Len(f.confirmNewPassword) >= 1, "Please confirm your new password"),
            Check(f.newPassword = f.confirmNewPassword, "Passwords do not match"),
            Check(f.currentPassword # f.newPassword,
                  "New password must be different from current password") >>
    [] a = "changeUsername" -> << usernameIssues(f.username) >>
    [] a = "updateProfile" -> << displayNameIssues(f.displayName), bioIssues(f.bio) >>
    [] OTHER -> << >>

\* the first message of the first field that has an issue
FirstFieldIssue(fields) ==
  LET k == CHOOSE i \in 1..Len(fields) :
             fields[i] # << >> /\ \A j \in 1..(i - 1) : fields[j] = << >>
  IN  Head(fields[k])

SchemaActions ==
  { "login", "signup", "changePassword", "changeUsername", "updateProfile",
    "updateNotificationPreferences" }

\* C3: when the form fails the schema, the action returns success=false with
\* the message of the first issue (first failing field in declared order,
\* first failing check of that field) and makes no sign-in, sign-up,
\* password update or profile write.
C3_FirstIssueReturned ==
  \A r \in Slots :
    (req[r].action \in SchemaActions /\ "validate:issues" \in Entries(r)) =>
      /\ ReturnedValue(r, [ success |-> FALSE,
                            error |-> FirstFieldIssue(FieldIssues(req[r].action,
                                                                  req[r].form)) ])
      /\ Last(r) = "validate:issues"
      /\ Entries(r) \cap (WriteEntries \cup { "select:found", "select:none" }) = { }

\* a signup whose form has issues in several fields
C3_Witness ==
  \E r \in Slots :
    /\ req[r].action = "signup"
    /\ "validate:issues" \in Entries(r)
    /\ Len(signupSchemaIssues(req[r].form)) > 2
    /\ Done(r)

\* ------------------------------------------------------------------------
\* C4 - signup with a taken username
\* ------------------------------------------------------------------------

\* a profile holds the lowercased form of the username the request asks for
NameHeld(r) ==
  \E u \in UserIds :
    profiles[u].present /\ profiles[u].username = ToLowerCase(req[r].form.username)

\* C4: a signup that passed the rate limit and validation and whose
\* availability lookup runs while a profile holds the lowercased username
\* returns {success:false, error:'Username is already taken'} without calling
\* auth.signUp; auth.signUp is called only after the lookup found no profile.
C4_TakenUsernameRejected ==
  /\ [](\A r \in Slots :
          req[r].action = "signup" =>
            /\ "select:found" \in Entries(r) =>
                 /\ ReturnedValue(r, Fail("Username is already taken"))
                 /\ Entries(r) \cap { "signUp:ok", "signUp:error" } = { }
            /\ \A i \in 1..Len(calls[r]) :
                 calls[r][i] \in { "signUp:ok", "signUp:error" } =>
                   i > 1 /\ calls[r][i - 1] = "select:none")
  /\ [][\A r \in Slots :
          (At(r, "signup", "select") /\ pc'[r] # "select" /\ NameHeld(r)) =>
            /\ pc'[r] = "done"
            /\ out'[r] = [ kind |-> "return", value |-> Fail("Username is already taken") ]
            /\ users' = users /\ profiles' = profiles]_vars

\* the requested username differs from the stored one by case only
C4_Witness ==
  \E r \in Slots :
    /\ req[r].action = "signup"
    /\ req[r].form.username = NameBobUpper
    /\ "select:found" \in Entries(r)
    /\ Done(r)

\* ------------------------------------------------------------------------
\* C5 - settings actions without an authenticated user
\* ------------------------------------------------------------------------

\* the browser of the request held no session from the start: it holds none
\* now and no request of this browser signed in or out
AnonymousThroughout(r) ==
  /\ session[req[r].client] = NoUser
  /\ \A q \in Slots :
       (req[q].action # "none" /\ req[q].client = req[r].client) =>
         Entries(q) \cap { "signInWithPassword:ok", "signOut" } = { }

NoVerificationOrWrite(r) ==
  Entries(r) \cap (WriteEntries \cup { "select:found", "select:none" }) = { }

\* C5 as stated: every settings action called without an authenticated user
\* returns {success:false, error:'You must be logged in to perform this
\* action'} and verifies, writes, deletes and signs out nothing.
C5_AsStated ==
  \A r \in Slots :
    (req[r].action \in SettingsActions /\ Done(r) /\ AnonymousThroughout(r)) =>
      /\ ReturnedValue(r, Fail(NotLoggedIn))
      /\ NoVerificationOrWrite(r)

\* C5, amended: a settings action called without an authenticated user
\* returns a result object and verifies, writes, deletes and signs out
\* nothing; the result is {success:false, error:'You must be logged in to
\* perform this action'} unless the rate limiter rejected the call first
\* (changePassword, changeUsername, deleteAccount, requestAccountDeletion),
\* in which case it is the too-many-attempts failure.
C5_NotLoggedInResult ==
  \A r \in Slots :
    req[r].action \in SettingsActions =>
      /\ "getUser:none" \in Entries(r) =>
           /\ ReturnedValue(r, Fail(NotLoggedIn))
           /\ Last(r) = "getUser:none"
           /\ NoVerificationOrWrite(r)
      /\ (Done(r) /\ AnonymousThroughout(r)) =>
           /\ NoVerificationOrWrite(r)
           /\ \/ ReturnedValue(r, Fail(NotLoggedIn))
              \/ /\ calls[r] = << "checkRateLimit:exceeded" >>
                 /\ ReturnedValue(r, Fail(TooManyMessage(req[r].action)))

C5_Witness ==
  \E r \in Slots :
    /\ req[r].action = "updateProfile"
    /\ AnonymousThroughout(r)
    /\ calls[r] = << "getUser:none" >>
    /\ Done(r)

\* ------------------------------------------------------------------------
\* C6 - changePassword verifies the current password first
\* ------------------------------------------------------------------------

\* C6: changePassword calls auth.updateUser only after the sign-in with the
\* current password succeeded in the same request; when the sign-in fails it
\* returns 'Current password is incorrect', not the provider's message, and
\* does not call updateUser.
C6_PasswordVerifiedFirst ==
  \A r \in Slots :
    req[r].action = "changePassword" =>
      /\ \A i \in 1..Len(calls[r]) :
           calls[r][i] \in { "updateUser:ok", "updateUser:error" } =>
             i > 1 /\ calls[r][i - 1] = "signInWithPassword:ok"
      /\ "signInWithPassword:error" \in Entries(r) =>
           /\ ReturnedValue(r, Fail("Current password is incorrect"))
           /\ Entries(r) \cap { "updateUser:ok", "updateUser:error" } = { }

C6_Witness ==
  \E r \in Slots :
    /\ req[r].action = "changePassword"
    /\ Last(r) = "signInWithPassword:error"
    /\ users[authUser[r]].password # req[r].form.currentPassword
    /\ Done(r)

\* ------------------------------------------------------------------------
\* C7 - deleteAccount redirects only after a deletion without error
\* ------------------------------------------------------------------------

\* C7: deleteAccount redirects (to /login?deleted=true) only when
\* auth.admin.deleteUser returned no error; on every other path, the one
\* through the catch block included, it returns {success:false, error} and
\* does not redirect.
C7_RedirectOnlyAfterDeletion ==
  \A r \in Slots :
    (req[r].action = "deleteAccount" /\ Done(r)) =>
      IF "deleteUser:ok" \in Entries(r)
        THEN RedirectedTo(r, "/login?deleted=true")
        ELSE ReturnedFailure(r)

\* a deletion the provider refused
C7_Witness ==
  \E r \in Slots :
    /\ req[r].action = "deleteAccount"
    /\ "deleteUser:error" \in Entries(r)
    /\ ReturnedFailure(r)

\* ------------------------------------------------------------------------
\* C8 - usernames stay unique
\* ------------------------------------------------------------------------

UsernamesUnique ==
  \A u, v \in UserIds :
    (u # v /\ profiles[u].present /\ profiles[v].present) =>
      ToLowerCase(profiles[u].username) # ToLowerCase(profiles[v].username)

UsernameRequest(r) == req[r].action \in { "signup", "changeUsername" }

\* two requests for the same username that overlapped and both succeeded
BothSucceeded(r, q) ==
  /\ r # q
  /\ overlapped
  /\ UsernameRequest(r) /\ UsernameRequest(q)
  /\ ToLowerCase(req[r].form.username) = ToLowerCase(req[q].form.username)
  /\ Succeeded(r) /\ Succeeded(q)

\* C8 as stated: no two profiles hold the same lowercased username, and of
\* two concurrent requests for the same username at most one succeeds.
C8_AsStated ==
  /\ UsernamesUnique
  /\ \A r, q \in Slots : ~BothSucceeded(r, q)

\* C8, amended: no two profiles hold the same lowercased username after any
\* interleaving of signup and changeUsername requests; two concurrent
\* requests for the same username both succeed only when they are
\* changeUsername requests of one user.
C8_UsernamesStayUnique ==
  /\ UsernamesUnique
  /\ \A r, q \in Slots :
       BothSucceeded(r, q) =>
         /\ req[r].action = "changeUsername" /\ req[q].action = "changeUsername"
         /\ authUser[r] = authUser[q]

\* two overlapping requests of different callers passed the lookup for one
\* name, and only one of them succeeded
C8_Witness ==
  \E r, q \in Slots :
    /\ r # q /\ overlapped
    /\ UsernameRequest(r) /\ UsernameRequest(q)
    /\ ToLowerCase(req[r].form.username) = ToLowerCase(req[q].form.username)
    /\ "select:none" \in Entries(r) /\ "select:none" \in Entries(q)
    /\ Succeeded(r)
    /\ ReturnedFailure(q)
    /\ authUser[r] # authUser[q]

\* ------------------------------------------------------------------------
\* C9 - OAuth sign-in needs SITE_URL
\* ------------------------------------------------------------------------

OAuthActions == { "signInWithGithub", "signInWithGoogle" }

\* C9: with SITE_URL unset, signInWithGithub and signInWithGoogle redirect to
\* /error and never call the OAuth provider; the provider is called only
\* with redirectTo = SITE_URL followed by /auth/callback.
C9_SiteUrlRequired ==
  \A r \in Slots :
    req[r].action \in OAuthActions =>
      /\ ~siteUrl.defined =>
           /\ oauth[r] = NoOAuth
           /\ Entries(r) \cap { "signInWithOAuth:ok", "signInWithOAuth:error" } = { }
           /\ Done(r) => RedirectedTo(r, "/error")
      /\ oauth[r] # NoOAuth =>
           /\ siteUrl.defined
           /\ oauth[r].redirectTo = siteUrl.value \o "/auth/callback"
           /\ oauth[r].provider = (IF req[r].action = "signInWithGithub"
                                     THEN "github" ELSE "google")

C9_Witness ==
  \E r \in Slots :
    /\ req[r].action = "signInWithGoogle"
    /\ ~siteUrl.defined
    /\ RedirectedTo(r, "/error")

\* ------------------------------------------------------------------------
\* C10 - the shape of what the actions return
\* ------------------------------------------------------------------------

InterfaceActions ==
  { "login", "signup", "signout", "signInWithGithub", "signInWithGoogle",
    "changePassword", "changeUsername", "updateProfile", "deleteAccount",
    "updateNotificationPreferences" }

\* C10 as stated: whenever one of the ten actions returns to its caller it
\* returns a result object: a boolean success, with an error exactly when
\* success is false.
C10_AsStated ==
  \A r \in Slots :
    (req[r].action \in InterfaceActions /\ Returned(r)) => IsResult(out[r].value)

\* C10, amended: login, signup, changePassword, changeUsername,
\* updateProfile, deleteAccount and updateNotificationPreferences return a
\* result object whenever they return (success=false carries an error,
\* success=true carries none); signout never returns, it redirects;
\* signInWithGithub and signInWithGoogle return no value at all on their only
\* path that does not redirect (the provider gave neither an error nor a url).
C10_ResultShape ==
  \A r \in Slots :
    (req[r].action \in InterfaceActions /\ Done(r)) =>
      CASE req[r].action = "signout" -> out[r].kind = "redirect"
        [] req[r].action \in OAuthActions ->
             Returned(r) => (out[r].value = Undefined /\ Last(r) = "signInWithOAuth:ok")
        [] OTHER -> Returned(r) => IsResult(out[r].value)

\* a failure result and an OAuth action that returned nothing
C10_Witness ==
  /\ \E r \in Slots :
       req[r].action \in OAuthActions /\ ReturnedValue(r, Undefined)
  /\ \E r \in Slots :
       req[r].action = "deleteAccount" /\ ReturnedFailure(r)

\* ------------------------------------------------------------------------
\* C11
\* ------------------------------------------------------------------------

\* the requirements of the password rule that p satisfies
RequirementsMet(p) ==
  { q \in { "length", "upper", "lower", "digit", "special" } :
      CASE q = "length" -> Len(p) >= 8
        [] q = "upper" -> \E i \in 1..Len(p) : p[i] \in UpperChars
        [] q = "lower" -> \E i \in 1..Len(p) : p[i] \in LowerChars
        [] q = "digit" -> \E i \in 1..Len(p) : p[i] \in DigitChars
        [] q = "special" -> \E i \in 1..Len(p) : p[i] \in { "@", "$", "!", "%", "*", "?", "&" } }

\* C11: for every password p, validatePasswordStrength(p).isValid is true
\* exactly when p satisfies all five requirements, score is the number of
\* requirements p satisfies (so it lies in 0..5), and isValid is score = 5
C11_StrengthCountsRequirements ==
  parse.schema = "validatePasswordStrength" =>
    LET met == Cardinality(RequirementsMet(parse.form))
        v == parse.result
    IN  /\ v.isValid <=> met = 5
        /\ v.score = met
        /\ v.score \in 0..5
        /\ v.isValid <=> v.score = 5

\* a password that meets all five requirements has been rated
C11_Witness ==
  /\ parse.schema = "validatePasswordStrength"
  /\ Len(parse.form) >= 8
  /\ parse.result.isValid

\* ------------------------------------------------------------------------
\* C12
\* ------------------------------------------------------------------------

\* 3 to 20 characters, the first a letter, all letters, digits or underscores
UsernameRule(u) ==
  /\ Len(u) \in 3..20
  /\ u[1] \in LetterChars
  /\ \A i \in 1..Len(u) : u[i] \in LetterChars \cup DigitChars \cup { "_" }

\* t is s with every uppercase letter replaced by its lowercase letter
IsLowercased(t, s) ==
  /\ Len(t) = Len(s)
  /\ \A i \in 1..Len(s) :
       IF s[i] \in UpperChars
         THEN \E k \in 1..Len(UpperSeq) : UpperSeq[k] = s[i] /\ t[i] = LowerSeq[k]
         ELSE t[i] = s[i]

SignupFormWith(u) ==
  [ fullName |-> << "A", "l" >>, username |-> u, email |-> MailC, password |-> PwA ]

\* C12: signupSchema and changeUsernameSchema accept a username exactly when
\* it is 3 to 20 characters long, starts with a letter and holds only
\* letters, digits and underscores; 'abc123' is accepted, '1abc' and 'ab' are
\* rejected; changeUsernameSchema yields the username in lowercase
C12_UsernameRule ==
  /\ parse.schema \in { "signupSchema.username", "changeUsernameSchema" } =>
       (parse.result.success <=> UsernameRule(parse.text))
  /\ parse.schema = "changeUsernameSchema" /\ parse.result.success =>
       IsLowercased(parse.result.data.username, parse.text)
  /\ \A schema \in { "signupSchema.username", "changeUsernameSchema" } :
       LET Accepts(u) ==
             Applied(schema, ParseForm(schema, u, [ none |-> TRUE ])).success
       IN  /\ Accepts(<< "a", "b", "c", "1", "2", "3" >>)
           /\ ~Accepts(<< "1", "a", "b", "c" >>)
           /\ ~Accepts(<< "a", "b" >>)

\* changeUsernameSchema has accepted a username of 20 characters that holds
\* an uppercase letter
C12_Witness ==
  /\ parse.schema = "changeUsernameSchema"
  /\ parse.result.success
  /\ Len(parse.text) = 20
  /\ "Z" \in Range(parse.text)

\* ------------------------------------------------------------------------
\* C13
\* ------------------------------------------------------------------------

\* at least 8 characters, all of them letters, digits or @$!%*?&, with a
\* lowercase letter, an uppercase letter, a digit and one of @$!%*?&
PasswordRule(p) ==
  /\ Len(p) >= 8
  /\ \A i \in 1..Len(p) : p[i] \in LetterChars \cup DigitChars \cup SpecialChars
  /\ \A class \in { LowerChars, UpperChars, DigitChars, SpecialChars } :
       \E i \in 1..Len(p) : p[i] \in class

\* C13: changePasswordSchema rejects every input whose new password equals
\* the current one and every input whose new password differs from the
\* confirmation; it accepts only inputs with a non-empty current password, a
\* new password that satisfies the password rule, new = confirmation and
\* new # current
C13_ChangePasswordRejects ==
  parse.schema = "changePasswordSchema" =>
    LET f == parse.form
    IN  /\ f.newPassword = f.currentPassword => ~parse.result.success
        /\ f.newPassword # f.confirmNewPassword => ~parse.result.success
        /\ parse.result.success =>
             /\ f.currentPassword # << >>
             /\ PasswordRule(f.newPassword)
             /\ f.newPassword = f.confirmNewPassword
             /\ f.newPassword # f.currentPassword

\* a valid new password that is confirmed and equals the current password
\* has been parsed
C13_Witness ==
  /\ parse.schema = "changePasswordSchema"
  /\ PasswordRule(parse.form.newPassword)
  /\ parse.form.newPassword = parse.form.confirmNewPassword
  /\ parse.form.newPassword = parse.form.currentPassword
  /\ ~parse.result.success

\* ------------------------------------------------------------------------
\* C14
\* ------------------------------------------------------------------------

\* the number of positions of s that hold c
Count(s, c) == Cardinality({ i \in 1..Len(s) : s[i] = c })

\* an address needs one "@" with text before it and, after it, a dot that is
\* neither the first nor the last character of the domain
Malformed(e) ==
  \/ Count(e, "@") # 1
  \/ e[1] = "@"
  \/ LET at == CHOOSE i \in 1..Len(e) : e[i] = "@"
     IN  \/ \A i \in (at + 1)..Len(e) : e[i] # "."
         \/ e[at + 1] = "."
         \/ e[Len(e)] = "."

\* C14: loginSchema rejects every input whose email is not a well-formed
\* address and every input whose password is empty; signupSchema rejects
\* every full name that holds a digit and accepts only names of 2 to 100
\* characters made of letters, whitespace, hyphens and apostrophes
C14_LoginAndFullNameRejects ==
  /\ parse.schema = "loginSchema" =>
       /\ Malformed(parse.form.email) \/ ~IsEmail(parse.form.email)
            => ~parse.result.success
       /\ parse.form.password = << >> => ~parse.result.success
  /\ parse.schema = "signupSchema.fullName" =>
       /\ (\E i \in 1..Len(parse.text) : parse.text[i] \in DigitChars)
            => ~parse.result.success
       /\ parse.result.success =>
            /\ Len(parse.text) \in 2..100
            /\ \A i \in 1..Len(parse.text) :
                 parse.text[i] \in LetterChars \cup SpaceChars \cup { "-", "'" }

\* a full name of 100 characters that holds a digit has been rejected
C14_Witness ==
  /\ parse.schema = "signupSchema.fullName"
  /\ Len(parse.text) = 100
  /\ "5" \in Range(parse.text)
  /\ ~parse.result.success

\* ------------------------------------------------------------------------
\* C15
\* ------------------------------------------------------------------------

\* C15: re-rendering the thread with referentially identical props renders
\* no comment again, and a state change local to one comment (toggling its
\* reply form) renders that comment and no other
C15_MemoizedSubtrees ==
  thread.mounted =>
    /\ thread.event.kind = "rerender" /\ thread.event.sameProps => thread.rendered = { }
    /\ thread.event.kind = "click" => thread.rendered = { thread.event.target }

\* the reply form of a comment that has replies and a sibling was toggled
C15_Witness ==
  /\ thread.mounted
  /\ thread.event.kind = "click"
  /\ thread.event.target = "c1-r1"
  /\ thread.rendered = { "c1-r1" }

\* ------------------------------------------------------------------------
\* C16
\* ------------------------------------------------------------------------

\* C16: a comment's reply form is hidden at first, shown after an odd number
\* of clicks on its Reply button and hidden after an even number, whatever
\* was clicked on the other comments
C16_ReplyFormToggles ==
  thread.mounted =>
    \A c \in Comments : thread.showReplyForm[c] <=> thread.clicks[c] % 2 = 1

\* one comment was clicked twice and its form is hidden while another
\* comment's form, clicked once, is shown
C16_Witness ==
  /\ thread.mounted
  /\ thread.clicks["c1"] = 2
  /\ ~thread.showReplyForm["c1"]
  /\ thread.clicks["c1-r1"] = 1
  /\ thread.showReplyForm["c1-r1"]

\* ------------------------------------------------------------------------
\* C17
\* ------------------------------------------------------------------------

\* C17: on a settings page loaded by a caller who is not logged in, the
\* forms are never shown (the page stays on its spinner), no settings action
\* is submitted, and once getCurrentProfile has answered the page is on its
\* way to /login
C17_LoggedOutPageRedirects ==
  page.route = "/settings" /\ session[page.client] = NoUser =>
    /\ page.isLoading
    /\ page.submits = 0
    /\ page.pc = "left" => page.navigated = "/login"
    /\ page.pc \notin { "loadProfile", "left" } => page.ended = "threw"

\* a caller who is not logged in has been sent to /login
C17_Witness ==
  /\ page.route = "/settings"
  /\ session[page.client] = NoUser
  /\ page.pc = "left"
  /\ page.navigated = "/login"
  /\ page.isLoading

\* ------------------------------------------------------------------------
\* C18
\* ------------------------------------------------------------------------

\* the page's submit button is disabled by the submission in progress
ButtonSuspended ==
  IF page.route = "/settings" THEN page.isSubmitting ELSE page.isLoading

\* C18: whatever the action came back with (a result or a thrown error), once
\* the submit handler of a page that stays open has ended, the submit button
\* is enabled again
C18_AsStated ==
  /\ page.route \in { "/settings", "/login" }
  /\ page.submits > 0
  /\ page.pc = "idle"
  /\ page.ended # "none"
  => ~ButtonSuspended

\* ------------------------------------------------------------------------
\* C19
\* ------------------------------------------------------------------------

\* the name under which each action counts its requests
ActionName(a) ==
  CASE a = "login" -> "login"
    [] a = "signup" -> "signup"
    [] a = "changePassword" -> "change-password"
    [] a = "changeUsername" -> "change-username"
    [] a = "deleteAccount" -> "delete-account"
    [] a = "requestAccountDeletion" -> "delete-request"

\* the client IP of each browser: c0 sends neither header, c1 sends
\* x-forwarded-for "7, 9" and x-real-ip "9", c2 sends x-real-ip "7"
ClientIp(c) ==
  CASE c = "c0" -> << "a", "n", "o", "n", "y", "m", "o", "u", "s" >>
    [] c = "c1" -> << "7" >>
    [] c = "c2" -> << "7" >>

\* the (action name, client IP) pair of request r
KeyOf(r) == << ActionName(req[r].action), ClientIp(req[r].client) >>

RateChecked(r) == \E i \in 1..Len(calls[r]) : calls[r][i] \in
                    { "checkRateLimit:ok", "checkRateLimit:exceeded" }
RateRejected(r) == \E i \in 1..Len(calls[r]) : calls[r][i] = "checkRateLimit:exceeded"

\* C19: a request is counted under the pair (action name, client IP), the IP
\* being the first entry of x-forwarded-for, else x-real-ip, else
\* 'anonymous': a request is rejected only when its own pair has reached the
\* limit, a counter moves only by a request of its own pair, and two admitted
\* requests of one pair (two requests of an action without either header
\* among them) have both been counted by that pair's one counter
C19_RateKeyIsActionAndIp ==
  /\ [](\A r \in Slots : RateRejected(r) => rateCount[KeyOf(r)] >= RateLimit)
  /\ [](\A r \in Slots : \A q \in Slots \ { r } :
          /\ RateChecked(r) /\ ~RateRejected(r)
          /\ RateChecked(q) /\ ~RateRejected(q)
          /\ KeyOf(r) = KeyOf(q)
          => rateCount[KeyOf(r)] >= 2)
  /\ [][\A k \in RateKeys :
          rateCount'[k] # rateCount[k] =>
            \E r \in Slots : /\ pc[r] = "checkRateLimit"
                             /\ pc'[r] # "checkRateLimit"
                             /\ k = KeyOf(r)
                             /\ rateCount'[k] = rateCount[k] + 1]_vars

\* two requests of one action, the first from the browser whose
\* x-forwarded-for starts with 7 and the second from the browser whose
\* x-real-ip is 7: the first took the last grant and the second was rejected
C19_Witness ==
  /\ req["r1"].action = "login" /\ req["r1"].client = "c1"
  /\ req["r2"].action = "login" /\ req["r2"].client = "c2"
  /\ RateChecked("r1") /\ ~RateRejected("r1")
  /\ RateRejected("r2")

\* ------------------------------------------------------------------------
\* C20
\* ------------------------------------------------------------------------

DeletionCalled(r) == Entries(r) \cap { "deleteUser:ok", "deleteUser:error" } # { }

\* C20: deleteAccount calls admin.deleteUser only if, in the same request,
\* the caller is authenticated, confirmText is exactly 'DELETE' and, when the
\* caller has an identity of provider 'email', a non-empty password was
\* supplied and a sign-in with it succeeded; a caller without an 'email'
\* identity (an empty identity list included) who is authenticated and
\* confirms reaches the deletion with no sign-in
C20_DeletionGuards ==
  \A r \in Slots :
    req[r].action = "deleteAccount" =>
      /\ DeletionCalled(r) =>
           /\ "getUser:ok" \in Entries(r)
           /\ authUser[r] # NoUser
           /\ req[r].form.confirmText = << "D", "E", "L", "E", "T", "E" >>
           /\ "email" \in users[authUser[r]].identities =>
                /\ req[r].form.password \notin { Null, << >> }
                /\ "signInWithPassword:ok" \in Entries(r)
      /\ /\ "getUser:ok" \in Entries(r)
         /\ "email" \notin users[authUser[r]].identities
         /\ req[r].form.confirmText = << "D", "E", "L", "E", "T", "E" >>
         => /\ pc[r] = "deleteUser" \/ DeletionCalled(r)
            /\ Entries(r) \cap { "signInWithPassword:ok", "signInWithPassword:error" } = { }

\* a caller with an empty identity list was deleted without a password
C20_Witness ==
  \E r \in Slots :
    /\ req[r].action = "deleteAccount"
    /\ authUser[r] # NoUser
    /\ users[authUser[r]].identities = { }
    /\ req[r].form.password = Null
    /\ "deleteUser:ok" \in Entries(r)

\* ------------------------------------------------------------------------
\* C23
\* ------------------------------------------------------------------------

\* C23: the strength indicator and the password rule of signupSchema and
\* changePasswordSchema accept the same passwords: validatePasswordStrength(p)
\* says isValid exactly when the schema raises no issue about p
C23_AsStated ==
  parse.schema = "validatePasswordStrength" =>
    (parse.result.isValid <=> passwordIssues(parse.form) = << >>)

\* ------------------------------------------------------------------------
\* C24
\* ------------------------------------------------------------------------

\* the provider calls that changed a stored account or profile
StoredWrites == { "signUp:ok", "updateUser:ok", "update:ok", "deleteUser:ok" }

StoredStateActions ==
  { "changePassword", "changeUsername", "updateProfile",
    "updateNotificationPreferences", "deleteAccount" }

\* C24: a call of changePassword, changeUsername, updateProfile,
\* updateNotificationPreferences or deleteAccount that returns success=false
\* has written nothing: none of its provider calls changed an account or a
\* profile row, and accounts and profile rows change only in a step whose
\* provider call reported the write done
C24_FailureLeavesStoredState ==
  /\ [](\A r \in Slots :
          (req[r].action \in StoredStateActions /\ ReturnedFailure(r)) =>
            Entries(r) \cap StoredWrites = { })
  /\ [][(users' # users \/ profiles' # profiles) =>
          \E r \in Slots :
            /\ calls'[r] # calls[r]
            /\ calls'[r][Len(calls'[r])] \in StoredWrites]_vars

\* the provider refused the new password: the call failed and the password
\* is the old one
C24_Witness ==
  \E r \in Slots :
    /\ req[r].action = "changePassword"
    /\ ReturnedFailure(r)
    /\ Last(r) = "updateUser:error"
    /\ authUser[r] = "u1"
    /\ users["u1"].password = PwA

\* ------------------------------------------------------------------------
\* C25
\* ------------------------------------------------------------------------

AdminAccessMessage == "Account deletion requires admin access. Please contact support."

\* C25 as stated: a deleteAccount call that returns success=false has not
\* signed the caller out
C25_AsStated ==
  \A r \in Slots :
    (req[r].action = "deleteAccount" /\ ReturnedFailure(r)) => "signOut" \notin Entries(r)

\* C25: deleteAccount signs out only after it called the deletion: after a
\* deletion without error it signs out and redirects, after a refused
\* deletion it signs out only on the way to the failure that asks for admin
\* access; a call that fails with any other error has made no sign-out, and
\* no other step of deleteAccount ends the caller's session
C25_SignOutAfterDeletionCall ==
  /\ [](\A r \in Slots :
          req[r].action = "deleteAccount" =>
            /\ "signOut" \in Entries(r) =>
                 \/ /\ "deleteUser:ok" \in Entries(r)
                    /\ RedirectedTo(r, "/login?deleted=true")
                 \/ /\ "deleteUser:error" \in Entries(r)
                    /\ ReturnedValue(r, Fail(AdminAccessMessage))
            /\ (ReturnedFailure(r) /\ out[r].value # Fail(AdminAccessMessage)) =>
                 "signOut" \notin Entries(r))
  /\ [][\A r \in Slots :
          /\ req[r].action = "deleteAccount"
          /\ calls'[r] # calls[r]
          /\ session'[req[r].client] # session[req[r].client]
          /\ session'[req[r].client] = NoUser
          => calls'[r][Len(calls'[r])] = "signOut"]_vars

\* the admin API refused the deletion: the caller is signed out of an
\* account that still exists, and the call failed
C25_Witness ==
  \E r \in Slots :
    /\ req[r].action = "deleteAccount"
    /\ ReturnedValue(r, Fail(AdminAccessMessage))
    /\ "signOut" \in Entries(r)
    /\ authUser[r] # NoUser
    /\ users[authUser[r]].status = "active"
    /\ session[req[r].client] = NoUser

\* ------------------------------------------------------------------------
\* C26
\* ------------------------------------------------------------------------

OwnDataActions ==
  { "changeUsername", "updateProfile", "updateNotificationPreferences", "deleteAccount" }

\* C26: every step of changeUsername, updateProfile,
\* updateNotificationPreferences and deleteAccount leaves the account and
\* the profile row of every user other than the authenticated caller as they
\* were
C26_OnlyOwnData ==
  [][\A r \in Slots :
       (req[r].action \in OwnDataActions /\ calls'[r] # calls[r]) =>
         \A u \in UserIds \ { authUser'[r] } :
           /\ users'[u] = users[u]
           /\ profiles'[u] = profiles[u]]_vars

\* the first caller renamed their own row and the other user's row is the
\* one it was at the start
C26_Witness ==
  \E r \in Slots :
    /\ req[r].action = "changeUsername"
    /\ Succeeded(r)
    /\ authUser[r] = "u1"
    /\ profiles["u1"].username = NameCat
    /\ profiles["u2"].username = NameAmy
    /\ pc["r2"] = "idle"

\* ------------------------------------------------------------------------
\* C27
\* ------------------------------------------------------------------------

\* z.string() given null
stringIssues(v) == Check(v # Null, "Expected string, received null")

\* deleteAccountSchema.safeParse({ password, confirmText }).error.issues
deleteAccountSchemaIssues(f) ==
  (IF stringIssues(f.password) # << >> THEN stringIssues(f.password)
   ELSE Check(Len(f.password) >= 1, "Password is required to delete your account"))
  \o (IF stringIssues(f.confirmText) # << >> THEN stringIssues(f.confirmText)
      ELSE Check(f.confirmText = DELETE, "Please type DELETE to confirm"))

\* the form of a password account has been looked at
FormChecked(r) ==
  /\ req[r].action = "deleteAccount"
  /\ authUser[r] # NoUser
  /\ "email" \in users[authUser[r]].identities
  /\ Entries(r) \cap { "validate:ok", "validate:issues" } # { }

\* C27 as stated: deleteAccount rejects the form of a password account
\* before any verification exactly when deleteAccountSchema rejects it, and
\* the error it returns is the first issue of the schema
C27_AsStated ==
  \A r \in Slots :
    FormChecked(r) =>
      LET issues == deleteAccountSchemaIssues(req[r].form)
      IN  /\ "validate:issues" \in Entries(r) <=> issues # << >>
          /\ "validate:issues" \in Entries(r) =>
               ReturnedValue(r, Fail(firstIssueMessage(issues)))

\* ------------------------------------------------------------------------
\* C28
\* ------------------------------------------------------------------------

\* the value the form gives a preference, true when the form has none
StatedPreference(v) == IF v = Null THEN TRUE ELSE v = TrueText

\* C28 as stated: after a successful updateNotificationPreferences, and no
\* other call since, the caller's row holds for each preference the value of
\* the form, and true for a preference the form does not have
C28_AsStated ==
  \A r \in Slots :
    ( /\ req[r].action = "updateNotificationPreferences"
      /\ Succeeded(r)
      /\ profiles[authUser[r]].present
      /\ \A q \in Slots \ { r } : pc[q] = "idle" ) =>
      /\ profiles[authUser[r]].security_alerts = StatedPreference(req[r].form.securityAlerts)
      /\ profiles[authUser[r]].email_updates = StatedPreference(req[r].form.emailUpdates)

\* ------------------------------------------------------------------------
\* C21
\* ------------------------------------------------------------------------

\* C21 as stated: an availability request is made only by the timer of the
\* latest change of the username field; the timer of a change that another
\* change followed before it was due (less than `delay` later) was
\* cancelled and asks nothing
C21_AsStated ==
  page.route \in { "/settings", "/login" } =>
    \A q \in page.asked : q.change = q.latest

\* ------------------------------------------------------------------------
\* C22
\* ------------------------------------------------------------------------

\* C22 as stated: on the login page, once no timer is pending and no
\* availability call is in flight, a usernameStatus of 'available' or
\* 'taken' is the answer for the username in the field
C22_AsStated ==
  ( /\ page.route = "/login"
    /\ page.timers = { }
    /\ page.inflight = { }
    /\ page.usernameStatus \in { "available", "taken" } ) =>
    /\ Len(page.username) >= 3
    /\ page.usernameStatus = IF checkUsernameAvailability(page.username)
                               THEN "available" ELSE "taken"

\* ------------------------------------------------------------------------
\* C29
\* ------------------------------------------------------------------------

\* C29: on the settings page error and success are never both set, and the
\* start of a submission, a click on a section of the sidebar and a click on
\* the X of the banner leave both null
C29_MessagesExclusive ==
  /\ [](page.route = "/settings" =>
          page.error = NoMessage \/ page.success = NoMessage)
  /\ [][( /\ page.route = "/settings"
          /\ \/ page'.submits # page.submits
             \/ page'.activeSection # page.activeSection
             \/ /\ page'.pc = page.pc
                /\ page'.error # page.error \/ page'.success # page.success ) =>
          /\ page'.error = NoMessage
          /\ page'.success = NoMessage]_vars

\* a second submission has started after a failed one in another section:
\* the error of the first is gone
C29_Witness ==
  /\ page.route = "/settings"
  /\ page.submits = 2
  /\ page.pc = "awaiting"
  /\ page.activeSection = "security"
  /\ page.error = NoMessage
  /\ page.success = NoMessage

====
